---- MODULE Spec2Model ----
(***************************************************************************)
(* A model of FaceAnalysisService (src/unnamed/part_000): the measurement  *)
(* extractor, the face-shape cascade, the colour sampler, the skin-tone    *)
(* classifier, the recommendation engine and analyzeFace, which sequences   *)
(* them.                                                                   *)
(*                                                                         *)
(* Numbers.  The service computes in IEEE doubles.  Lengths are integers   *)
(* here, in pixels: the enumerated boxes and keypoints are such that every *)
(* product the extractor forms (x0.4, x1.3, x0.9, x0.85, x1.5, x0.2) and    *)
(* every distance is a whole number, in the doubles as well.  A quotient   *)
(* a/b is kept as the pair <<a, b>> and is only ever compared with a       *)
(* constant, as the code does; the comparison operators give the answer    *)
(* JavaScript gives, b = 0 included (x/0 is +Infinity for x > 0 and 0/0 is *)
(* NaN).                                                                   *)
(***************************************************************************)
EXTENDS Integers, Sequences, FiniteSets, TLC

VARIABLES
    model,            \* FaceAnalysisService.model: "null" or "detector"
    pc,               \* where the call under way stands
    image,            \* analyzeFace's argument imageElement
    faces,            \* the list estimateFaces resolved with
    box,              \* face.box
    keypoints,        \* face.keypoints, a list of [name, x, y]
    measurements,     \* calculateMeasurements(...).measurements
    confidence,       \* calculateMeasurements(...).confidence, a quotient
    faceShape,        \* determineFaceShape's label
    rgb,              \* analyzeSkinTone's rounded r, g, b
    skinTone,         \* classifySkinTone's label
    recommendations,  \* generateRecommendations' list
    outcome,          \* what analyzeFace handed its caller
    steps,            \* how often each step of the call ran
    history,          \* the results of the earlier calls of a function
    detectors,        \* how many detectors createDetector has made
    state,            \* SelfieAnalyzer's useState values
    effects,          \* the runs of the camera effect, each with its video
    tracks,           \* per stream of getUserMedia: "live" or "stopped"
    calls,            \* the analyzeImage invocations
    readers,          \* the FileReaders whose onload is to come
    rendered          \* the component is in the tree

serviceVars ==
    <<model, pc, image, faces, box, keypoints, measurements, confidence,
      faceShape, rgb, skinTone, recommendations, outcome, steps, history,
      detectors>>

componentVars == <<state, effects, tracks, calls, readers, rendered>>

vars == <<serviceVars, componentVars>>

\* SelfieAnalyzer before its first render: lines 14-22.
\* null, as an image or error; as an analysis; as a stream (the streams are
\* numbered from 1 in the order getUserMedia gives them).
Null == "null"
NoAnalysis == [faceShape |-> "null", skinTone |-> "null", recommendations |-> <<>>]
NoStream == 0
NoState ==
    [image |-> Null, analysis |-> NoAnalysis, isProcessing |-> FALSE,
     error |-> Null, isCameraOpen |-> FALSE, stream |-> NoStream]

NoComponent ==
    /\ state = NoState
    /\ effects = <<>>
    /\ tracks = <<>>
    /\ calls = <<>>
    /\ readers = <<>>
    /\ rendered = FALSE

(***************************************************************************)
(* Bounds of the enumerated inputs.                                        *)
(***************************************************************************)
MaxMeasure == 10
MaxCalls == 2
RgbLevels == 51
MaxBoxUnits == 2
MaxFaces == 2

(***************************************************************************)
(* Values a local holds before its assignment has run.                     *)
(***************************************************************************)
Unset == "unset"
NoMeasurements ==
    [faceWidth |-> -1, faceHeight |-> -1, foreheadWidth |-> -1,
     jawWidth |-> -1, chinLength |-> -1]
NoBox == [width |-> -1, height |-> -1]
NoRgb == [r |-> -1, g |-> -1, b |-> -1]
NoImage ==
    [width |-> -1, height |-> -1, pixel |-> NoRgb, context |-> FALSE,
     patch |-> NoRgb, patchWidth |-> 0, patchHeight |-> 0]
NoQuotient == <<-1, 1>>
NoSteps ==
    [estimateFaces |-> 0, calculateMeasurements |-> 0, determineFaceShape |-> 0,
     analyzeSkinTone |-> 0, generateRecommendations |-> 0]

(***************************************************************************)
(* JavaScript's number comparisons on a quotient q = <<a, b>> of two       *)
(* non-negative numbers, against the constant n/d (d > 0).                 *)
(***************************************************************************)
Quotient(a, b) == <<a, b>>
IsNaN(q) == q[1] = 0 /\ q[2] = 0
IsInfinity(q) == q[1] > 0 /\ q[2] = 0
IsFinite(q) == q[2] > 0

Less(q, n, d) == IsFinite(q) /\ q[1] * d < n * q[2]
Greater(q, n, d) == IsInfinity(q) \/ (IsFinite(q) /\ q[1] * d > n * q[2])
GreaterEq(q, n, d) == IsInfinity(q) \/ (IsFinite(q) /\ q[1] * d >= n * q[2])

\* Math.abs(q - 1) < 0.1.  The subtraction q - 1 is exact for q in [0.5, 2],
\* and the double 0.1 is a little above one tenth, so at q = 0.9 the code
\* computes 0.09999999999999998 < 0.1, which is true; at q = 1.1 it computes
\* 0.10000000000000009 < 0.1, which is false.  The lower end is inclusive.
AbsMinusOneLessTenth(q) ==
    IsFinite(q) /\ 9 * q[2] <= 10 * q[1] /\ 10 * q[1] < 11 * q[2]

\* The cascade with its first rule strict: Oblong only above 1.75.
determineFaceShapeMutStrict(m) ==
    LET lengthToWidthRatio == Quotient(m.faceHeight, m.faceWidth)
        foreheadToJawRatio == Quotient(m.foreheadWidth, m.jawWidth)
        widthToHeightRatio == Quotient(m.faceWidth, m.faceHeight)
        chinRatio == Quotient(m.chinLength, m.faceHeight)
    IN  IF Greater(lengthToWidthRatio, 175, 100) THEN "Oblong"
        ELSE IF Less(lengthToWidthRatio, 125, 100)
                /\ AbsMinusOneLessTenth(foreheadToJawRatio) THEN "Round"
        ELSE IF Less(foreheadToJawRatio, 9, 10)
        THEN (IF Less(chinRatio, 15, 100) THEN "Triangle" ELSE "Diamond")
        ELSE IF Greater(foreheadToJawRatio, 11, 10)
        THEN (IF Less(chinRatio, 15, 100) THEN "Heart" ELSE "Inverted Triangle")
        ELSE IF Greater(widthToHeightRatio, 65, 100)
                /\ Less(widthToHeightRatio, 75, 100)
                /\ AbsMinusOneLessTenth(foreheadToJawRatio) THEN "Square"
        ELSE "Oval"

(***************************************************************************)
(* determineFaceShape: the ordered cascade.                                *)
(***************************************************************************)
\* The cascade with the forehead/jaw rule tried before the Oblong rule.
determineFaceShapeMutOrder(m) ==
    LET lengthToWidthRatio == Quotient(m.faceHeight, m.faceWidth)
        foreheadToJawRatio == Quotient(m.foreheadWidth, m.jawWidth)
        widthToHeightRatio == Quotient(m.faceWidth, m.faceHeight)
        chinRatio == Quotient(m.chinLength, m.faceHeight)
    IN  IF Less(foreheadToJawRatio, 9, 10)
        THEN (IF Less(chinRatio, 15, 100) THEN "Triangle" ELSE "Diamond")
        ELSE IF GreaterEq(lengthToWidthRatio, 175, 100) THEN "Oblong"
        ELSE IF Less(lengthToWidthRatio, 125, 100)
                /\ AbsMinusOneLessTenth(foreheadToJawRatio) THEN "Round"
        ELSE IF Greater(foreheadToJawRatio, 11, 10)
        THEN (IF Less(chinRatio, 15, 100) THEN "Heart" ELSE "Inverted Triangle")
        ELSE IF Greater(widthToHeightRatio, 65, 100)
                /\ Less(widthToHeightRatio, 75, 100)
                /\ AbsMinusOneLessTenth(foreheadToJawRatio) THEN "Square"
        ELSE "Oval"

\* The cascade with a label outside the eight for the Square rule.
determineFaceShapeMutLabel(m) ==
    LET lengthToWidthRatio == Quotient(m.faceHeight, m.faceWidth)
        foreheadToJawRatio == Quotient(m.foreheadWidth, m.jawWidth)
        widthToHeightRatio == Quotient(m.faceWidth, m.faceHeight)
        chinRatio == Quotient(m.chinLength, m.faceHeight)
    IN  IF GreaterEq(lengthToWidthRatio, 175, 100) THEN "Oblong"
        ELSE IF Less(lengthToWidthRatio, 125, 100)
                /\ AbsMinusOneLessTenth(foreheadToJawRatio) THEN "Round"
        ELSE IF Less(foreheadToJawRatio, 9, 10)
        THEN (IF Less(chinRatio, 15, 100) THEN "Triangle" ELSE "Diamond")
        ELSE IF Greater(foreheadToJawRatio, 11, 10)
        THEN (IF Less(chinRatio, 15, 100) THEN "Heart" ELSE "Inverted Triangle")
        ELSE IF Greater(widthToHeightRatio, 65, 100)
                /\ Less(widthToHeightRatio, 75, 100)
                /\ AbsMinusOneLessTenth(foreheadToJawRatio) THEN "Rectangle"
        ELSE "Oval"

determineFaceShape(m) ==
    LET lengthToWidthRatio == Quotient(m.faceHeight, m.faceWidth)
        foreheadToJawRatio == Quotient(m.foreheadWidth, m.jawWidth)
        widthToHeightRatio == Quotient(m.faceWidth, m.faceHeight)
        chinRatio == Quotient(m.chinLength, m.faceHeight)
    IN  IF GreaterEq(lengthToWidthRatio, 175, 100) THEN "Oblong"
        ELSE IF Less(lengthToWidthRatio, 125, 100)
                /\ AbsMinusOneLessTenth(foreheadToJawRatio) THEN "Round"
        ELSE IF Less(foreheadToJawRatio, 9, 10)
        THEN (IF Less(chinRatio, 15, 100) THEN "Triangle" ELSE "Diamond")
        ELSE IF Greater(foreheadToJawRatio, 11, 10)
        THEN (IF Less(chinRatio, 15, 100) THEN "Heart" ELSE "Inverted Triangle")
        ELSE IF Greater(widthToHeightRatio, 65, 100)
                /\ Less(widthToHeightRatio, 75, 100)
                /\ AbsMinusOneLessTenth(foreheadToJawRatio) THEN "Square"
        ELSE "Oval"

(***************************************************************************)
(* SpecShape: determineFaceShape applied, MaxCalls times over, to one      *)
(* Measurements record with positive faceWidth, faceHeight and jawWidth.   *)
(***************************************************************************)
ShapeInputs ==
    [faceWidth : 1..MaxMeasure, faceHeight : 1..MaxMeasure,
     foreheadWidth : 0..MaxMeasure, jawWidth : 1..MaxMeasure,
     chinLength : 0..MaxMeasure]

InitShape ==
    /\ pc = "determineFaceShape"
    /\ measurements \in ShapeInputs
    /\ model = "detector"
    /\ image = NoImage
    /\ faces = <<>>
    /\ box = NoBox
    /\ keypoints = <<>>
    /\ confidence = NoQuotient
    /\ faceShape = Unset
    /\ rgb = NoRgb
    /\ skinTone = Unset
    /\ recommendations = <<>>
    /\ outcome = "pending"
    /\ steps = NoSteps
    /\ history = <<>>
    /\ detectors = 0
    /\ NoComponent

CallDetermineFaceShape ==
    /\ pc = "determineFaceShape"
    /\ steps.determineFaceShape < MaxCalls
    /\ faceShape' = determineFaceShape(measurements)
    /\ history' = IF steps.determineFaceShape = 0 THEN history
                  ELSE Append(history, faceShape)
    /\ steps' = [steps EXCEPT !.determineFaceShape = @ + 1]
    /\ UNCHANGED <<model, pc, image, faces, box, keypoints, measurements,
                   confidence, rgb, skinTone, recommendations, outcome>>
    /\ UNCHANGED <<detectors, componentVars>>

NextShape == CallDetermineFaceShape

SpecShape == InitShape /\ [][NextShape]_vars

(***************************************************************************)
(* classifySkinTone: brightness brackets, then warmth within the bracket.  *)
(***************************************************************************)
\* The classifier with the two Medium labels exchanged.
classifySkinToneMutLabels(r, g, b) ==
    LET brightness == Quotient(r + g + b, 3)
        warmth == r - b
    IN  IF Greater(brightness, 200, 1) THEN "Fair"
        ELSE IF Greater(brightness, 170, 1)
        THEN (IF warmth > 60 THEN "Warm Light" ELSE "Cool Light")
        ELSE IF Greater(brightness, 140, 1)
        THEN (IF warmth > 40 THEN "Cool Medium" ELSE "Warm Medium")
        ELSE IF Greater(brightness, 100, 1)
        THEN (IF warmth > 30 THEN "Warm Deep" ELSE "Cool Deep")
        ELSE "Deep"

\* The classifier with brightness >= 200 for Fair.
classifySkinToneMutInclusive(r, g, b) ==
    LET brightness == Quotient(r + g + b, 3)
        warmth == r - b
    IN  IF GreaterEq(brightness, 200, 1) THEN "Fair"
        ELSE IF Greater(brightness, 170, 1)
        THEN (IF warmth > 60 THEN "Warm Light" ELSE "Cool Light")
        ELSE IF Greater(brightness, 140, 1)
        THEN (IF warmth > 40 THEN "Warm Medium" ELSE "Cool Medium")
        ELSE IF Greater(brightness, 100, 1)
        THEN (IF warmth > 30 THEN "Warm Deep" ELSE "Cool Deep")
        ELSE "Deep"

classifySkinTone(r, g, b) ==
    LET brightness == Quotient(r + g + b, 3)
        warmth == r - b
    IN  IF Greater(brightness, 200, 1) THEN "Fair"
        ELSE IF Greater(brightness, 170, 1)
        THEN (IF warmth > 60 THEN "Warm Light" ELSE "Cool Light")
        ELSE IF Greater(brightness, 140, 1)
        THEN (IF warmth > 40 THEN "Warm Medium" ELSE "Cool Medium")
        ELSE IF Greater(brightness, 100, 1)
        THEN (IF warmth > 30 THEN "Warm Deep" ELSE "Cool Deep")
        ELSE "Deep"

(***************************************************************************)
(* SpecTone: classifySkinTone applied to one sample whose channels lie on  *)
(* a grid of RgbLevels + 1 levels spread over 0..255.                      *)
(***************************************************************************)
ChannelLevels == {(255 * k) \div RgbLevels : k \in 0..RgbLevels}

ToneInputs == [r : ChannelLevels, g : ChannelLevels, b : ChannelLevels]

InitTone ==
    /\ pc = "classifySkinTone"
    /\ rgb \in ToneInputs
    /\ model = "detector"
    /\ image = NoImage
    /\ faces = <<>>
    /\ box = NoBox
    /\ keypoints = <<>>
    /\ measurements = NoMeasurements
    /\ confidence = NoQuotient
    /\ faceShape = Unset
    /\ skinTone = Unset
    /\ recommendations = <<>>
    /\ outcome = "pending"
    /\ steps = NoSteps
    /\ history = <<>>
    /\ detectors = 0
    /\ NoComponent

CallClassifySkinTone ==
    /\ pc = "classifySkinTone"
    /\ skinTone = Unset
    /\ skinTone' = classifySkinTone(rgb.r, rgb.g, rgb.b)
    /\ UNCHANGED <<model, pc, image, faces, box, keypoints, measurements,
                   confidence, faceShape, rgb, recommendations, outcome, steps,
                   history>>
    /\ UNCHANGED <<detectors, componentVars>>

NextTone == CallClassifySkinTone

SpecTone == InitTone /\ [][NextTone]_vars

(***************************************************************************)
(* calculateMeasurements: box and named keypoints to five measurements and *)
(* a confidence.                                                           *)
(***************************************************************************)
\* keypoints.find(k => k.name === name): the first keypoint of that name, or
\* undefined.
Undefined == [name |-> "undefined", x |-> -1, y |-> -1]

find(kps, name) ==
    IF \E i \in 1..Len(kps) : kps[i].name = name
    THEN kps[CHOOSE i \in 1..Len(kps) :
                 /\ kps[i].name = name
                 /\ \A j \in 1..(i - 1) : kps[j].name # name]
    ELSE Undefined

\* a * (n / d) for the decimal constant n/d; whole on the enumerated inputs.
Times(a, n, d) == (a * n) \div d

\* Math.sqrt; every distance between two enumerated points is whole.
Sqrt(n) == CHOOSE r \in 0..n : r * r <= n /\ n < (r + 1) * (r + 1)

distance(point1, point2) ==
    Sqrt((point2[1] - point1[1]) ^ 2 + (point2[2] - point1[2]) ^ 2)

\* The eye distance taken when either eye is there.
eyeDistanceMutEither(b, kps) ==
    LET leftEye == find(kps, "leftEye")
        rightEye == find(kps, "rightEye")
    IN  IF leftEye # Undefined \/ rightEye # Undefined
        THEN distance(<<leftEye.x, leftEye.y>>, <<rightEye.x, rightEye.y>>)
        ELSE Times(b.width, 4, 10)

eyeDistance(b, kps) ==
    LET leftEye == find(kps, "leftEye")
        rightEye == find(kps, "rightEye")
    IN  IF leftEye # Undefined /\ rightEye # Undefined
        THEN distance(<<leftEye.x, leftEye.y>>, <<rightEye.x, rightEye.y>>)
        ELSE Times(b.width, 4, 10)

foreheadWidth(b, kps) == Times(eyeDistance(b, kps), 13, 10)

\* The jaw's fallback taken as 0.8 of the width.
jawWidthMutFallback(b, kps) ==
    LET leftCheek == find(kps, "leftCheek")
        rightCheek == find(kps, "rightCheek")
    IN  IF leftCheek # Undefined /\ rightCheek # Undefined
        THEN Times(distance(<<leftCheek.x, leftCheek.y>>,
                            <<rightCheek.x, rightCheek.y>>), 9, 10)
        ELSE Times(b.width, 8, 10)

jawWidth(b, kps) ==
    LET leftCheek == find(kps, "leftCheek")
        rightCheek == find(kps, "rightCheek")
    IN  IF leftCheek # Undefined /\ rightCheek # Undefined
        THEN Times(distance(<<leftCheek.x, leftCheek.y>>,
                            <<rightCheek.x, rightCheek.y>>), 9, 10)
        ELSE Times(b.width, 85, 100)

chinLength(b, kps) ==
    LET nose == find(kps, "noseTip")
        mouth == find(kps, "mouth")
    IN  IF nose # Undefined /\ mouth # Undefined
        THEN Times(distance(<<nose.x, nose.y>>, <<mouth.x, mouth.y>>), 15, 10)
        ELSE Times(b.height, 2, 10)

\* The count of all keypoints of the list, whatever their names.
keyPointsFoundMutAll(kps) == Len(kps)

keyPointsFound(kps) ==
    LET looked == <<find(kps, "leftEye"), find(kps, "rightEye"),
                    find(kps, "noseTip"), find(kps, "mouth"),
                    find(kps, "leftCheek"), find(kps, "rightCheek")>>
    IN  Len(SelectSeq(looked, LAMBDA point : point # Undefined))

calculateMeasurements(b, kps) ==
    [measurements |->
        [faceWidth |-> b.width,
         faceHeight |-> b.height,
         foreheadWidth |-> foreheadWidth(b, kps),
         jawWidth |-> jawWidth(b, kps),
         chinLength |-> chinLength(b, kps)],
     confidence |-> Quotient(keyPointsFound(kps), 6)]

(***************************************************************************)
(* SpecMeasure: calculateMeasurements applied to one box and one keypoint  *)
(* list.  A list holds each name at most once, in the detector's order;    *)
(* "leftEar" stands for the names the extractor does not look for.         *)
(***************************************************************************)
Absent == <<>>
Points == {<<80, 100>>, <<120, 100>>, <<80, 130>>}
NameOrder ==
    <<"rightEye", "leftEye", "noseTip", "mouth", "rightCheek", "leftCheek",
      "leftEar">>

Placements ==
    {f \in [1..Len(NameOrder) -> Points \cup {Absent}] :
        f[Len(NameOrder)] \in {Absent, <<80, 100>>}}

KeypointList(f) ==
    LET present == SelectSeq([i \in 1..Len(NameOrder) |-> i],
                             LAMBDA i : f[i] # Absent)
    IN  [k \in 1..Len(present) |->
            [name |-> NameOrder[present[k]],
             x |-> f[present[k]][1],
             y |-> f[present[k]][2]]]

Boxes ==
    [width : {100 * k : k \in 0..MaxBoxUnits},
     height : {100 * k : k \in 0..MaxBoxUnits}]

InitMeasure ==
    /\ pc = "calculateMeasurements"
    /\ box \in Boxes
    /\ keypoints \in {KeypointList(f) : f \in Placements}
    /\ model = "detector"
    /\ image = NoImage
    /\ faces = <<>>
    /\ measurements = NoMeasurements
    /\ confidence = NoQuotient
    /\ faceShape = Unset
    /\ rgb = NoRgb
    /\ skinTone = Unset
    /\ recommendations = <<>>
    /\ outcome = "pending"
    /\ steps = NoSteps
    /\ history = <<>>
    /\ detectors = 0
    /\ NoComponent

CallCalculateMeasurements ==
    /\ pc = "calculateMeasurements"
    /\ measurements = NoMeasurements
    /\ LET got == calculateMeasurements(box, keypoints)
       IN  /\ measurements' = got.measurements
           /\ confidence' = got.confidence
    /\ UNCHANGED <<model, pc, image, faces, box, keypoints, faceShape, rgb,
                   skinTone, recommendations, outcome, steps, history>>
    /\ UNCHANGED <<detectors, componentVars>>

NextMeasure == CallCalculateMeasurements

SpecMeasure == InitMeasure /\ [][NextMeasure]_vars

(***************************************************************************)
(* generateRecommendations: the strings of the shape's case of the switch, *)
(* then the warm or the cool strings.                                      *)
(***************************************************************************)
\* The words of the labels classifySkinTone returns; skinTone.includes("Warm")
\* is then the presence of the word.
Words(label) ==
    CASE label = "Fair" -> <<"Fair">>
      [] label = "Warm Light" -> <<"Warm", "Light">>
      [] label = "Cool Light" -> <<"Cool", "Light">>
      [] label = "Warm Medium" -> <<"Warm", "Medium">>
      [] label = "Cool Medium" -> <<"Cool", "Medium">>
      [] label = "Warm Deep" -> <<"Warm", "Deep">>
      [] label = "Cool Deep" -> <<"Cool", "Deep">>
      [] label = "Deep" -> <<"Deep">>
      [] OTHER -> <<>>

includes(label, word) ==
    \E i \in 1..Len(Words(label)) : Words(label)[i] = word

shapeCase(shape) ==
    CASE shape = "Oval" ->
            <<"Your balanced face shape complements most hairstyles",
              "Try textured layers to enhance your natural harmony",
              "Both long and short styles work well with your proportions">>
      [] shape = "Round" ->
            <<"Long, layered cuts and side-swept bangs create length",
              "Avoid blunt bobs that accentuate roundness",
              "Try volume at the crown to elongate your face">>
      [] shape = "Square" ->
            <<"Soft layers and wispy bangs soften angular features",
              "Side-parts and waves balance strong jawline",
              "Avoid blunt cuts that emphasize angles">>
      [] shape = "Diamond" ->
            <<"Side-swept bangs complement your cheekbones",
              "Chin-length or longer styles balance facial proportions",
              "Add volume at the forehead and jaw areas">>
      [] shape = "Heart" ->
            <<"Side-swept bangs balance a wider forehead",
              "Medium-length cuts with layers around the chin",
              "Avoid styles with too much height at the crown">>
      [] shape = "Triangle" ->
            <<"Volume at the crown balances a wider jaw",
              "Long layers with face-framing pieces",
              "Try side-swept bangs and textured ends">>
      [] shape = "Oblong" ->
            <<"Short to medium-length cuts add width",
              "Side-swept bangs break up length",
              "Avoid very long or sleek styles">>
      [] OTHER -> <<>>

warmStrings ==
    <<"Gold and copper jewelry enhances your warm undertones",
      "Earth-toned and peachy makeup colors suit your complexion",
      "Try hair colors with golden or copper undertones">>

coolStrings ==
    <<"Silver and platinum jewelry complements your cool undertones",
      "Rose and blue-based makeup colors enhance your complexion",
      "Consider hair colors with ash or cool undertones">>

\* The tone strings with no branch for a tone that is neither Warm nor Cool.
toneCaseMutNoElse(tone) ==
    IF includes(tone, "Warm") THEN warmStrings
    ELSE IF includes(tone, "Cool") THEN coolStrings
    ELSE <<>>

\* The tone strings chosen by the test for "Cool", the warm ones otherwise.
toneCaseMutCoolTest(tone) ==
    IF includes(tone, "Cool") THEN coolStrings ELSE warmStrings

toneCase(tone) ==
    IF includes(tone, "Warm") THEN warmStrings ELSE coolStrings

\* The list with the tone strings pushed before the shape's.
generateRecommendationsMutToneFirst(shape, tone) ==
    toneCase(tone) \o shapeCase(shape)

generateRecommendations(shape, tone) == shapeCase(shape) \o toneCase(tone)

(***************************************************************************)
(* SpecRecs: generateRecommendations applied, MaxCalls times over, to one  *)
(* pair of a face-shape label and a skin-tone label.                       *)
(***************************************************************************)
FaceShapes ==
    {"Oval", "Round", "Square", "Oblong", "Heart", "Triangle", "Diamond",
     "Inverted Triangle"}

SkinTones ==
    {"Fair", "Warm Light", "Cool Light", "Warm Medium", "Cool Medium",
     "Warm Deep", "Cool Deep", "Deep"}

InitRecs ==
    /\ pc = "generateRecommendations"
    /\ faceShape \in FaceShapes
    /\ skinTone \in SkinTones
    /\ model = "detector"
    /\ image = NoImage
    /\ faces = <<>>
    /\ box = NoBox
    /\ keypoints = <<>>
    /\ measurements = NoMeasurements
    /\ confidence = NoQuotient
    /\ rgb = NoRgb
    /\ recommendations = <<>>
    /\ outcome = "pending"
    /\ steps = NoSteps
    /\ history = <<>>
    /\ detectors = 0
    /\ NoComponent

CallGenerateRecommendations ==
    /\ pc = "generateRecommendations"
    /\ steps.generateRecommendations < MaxCalls
    /\ recommendations' = generateRecommendations(faceShape, skinTone)
    /\ history' = IF steps.generateRecommendations = 0 THEN history
                  ELSE Append(history, recommendations)
    /\ steps' = [steps EXCEPT !.generateRecommendations = @ + 1]
    /\ UNCHANGED <<model, pc, image, faces, box, keypoints, measurements,
                   confidence, faceShape, rgb, skinTone, outcome>>
    /\ UNCHANGED <<detectors, componentVars>>

NextRecs == CallGenerateRecommendations

SpecRecs == InitRecs /\ [][NextRecs]_vars

(***************************************************************************)
(* analyzeSkinTone: the image drawn on a canvas of its size, a window of   *)
(* sampleSize x sampleSize read around the centre, its channels averaged   *)
(* and rounded.  getImageData gives transparent black (0, 0, 0, 0) for the *)
(* pixels of the window that lie outside the canvas.  An enumerated image  *)
(* is of the colour image.pixel, but for its top left patchWidth x         *)
(* patchHeight pixels, which are of the colour image.patch.                *)
(***************************************************************************)
sampleSize == 50

\* The quotient cut off instead of rounded.
RoundMutFloor(n, d) == n \div d

\* Math.round(n / d) for n >= 0: halves go up.
Round(n, d) == (2 * n + d) \div (2 * d)

\* The columns (or rows) of the window that lie on a canvas of that side.
OnCanvas(side) ==
    LET center == side \div 2
        first == center - (sampleSize \div 2)
    IN  {x \in first..(first + sampleSize - 1) : 0 <= x /\ x < side}

\* The loop of lines 193-198 adds up imageData.data over the window: nothing
\* for a pixel off the canvas, the patch's colour for a pixel of the patch,
\* image.pixel for any other.  Here the pixels of each kind are counted.
sampleRgb(img) ==
    LET columns == OnCanvas(img.width)
        rows == OnCanvas(img.height)
        inside == Cardinality(columns) * Cardinality(rows)
        patched == Cardinality({x \in columns : x < img.patchWidth})
                       * Cardinality({y \in rows : y < img.patchHeight})
        pixelCount == sampleSize * sampleSize
        total(channel) ==
            patched * img.patch[channel] + (inside - patched) * img.pixel[channel]
    IN  [r |-> Round(total("r"), pixelCount),
         g |-> Round(total("g"), pixelCount),
         b |-> Round(total("b"), pixelCount)]

(***************************************************************************)
(* Spec: one service; initialize and analyzeFace called one after another. *)
(* analyzeFace suspends twice, at the detector call and at analyzeSkinTone *)
(* (whose body runs at once, up to its return or throw).                   *)
(***************************************************************************)
ModelNotInitialized == "Model not initialized"
NoFaceDetected ==
    "No face detected in the image. Please try again with a clearer photo."
NoCanvasContext == "Could not get canvas context"

ImageSides == {40, 100}
Pixels == {[r |-> 210, g |-> 205, b |-> 200], [r |-> 150, g |-> 120, b |-> 80]}
Images ==
    {[width |-> w, height |-> h, pixel |-> p, context |-> c,
      patch |-> p, patchWidth |-> 0, patchHeight |-> 0] :
        w \in ImageSides, h \in ImageSides, p \in Pixels, c \in BOOLEAN}

\* The faces the detector answers with: boxes of zero and of positive area,
\* with no keypoint, two eyes, or eyes and cheeks.
DetectorBoxes ==
    {[width |-> 0, height |-> 100], [width |-> 100, height |-> 100],
     [width |-> 100, height |-> 200], [width |-> 200, height |-> 300]}

DetectorKeypoints ==
    {<<>>,
     <<[name |-> "rightEye", x |-> 120, y |-> 100],
       [name |-> "leftEye", x |-> 80, y |-> 100]>>,
     <<[name |-> "rightEye", x |-> 80, y |-> 130],
       [name |-> "leftEye", x |-> 120, y |-> 100],
       [name |-> "rightCheek", x |-> 80, y |-> 130],
       [name |-> "leftCheek", x |-> 80, y |-> 100]>>,
     <<[name |-> "rightEye", x |-> 80, y |-> 130],
       [name |-> "leftEye", x |-> 80, y |-> 100],
       [name |-> "rightCheek", x |-> 80, y |-> 100],
       [name |-> "leftCheek", x |-> 120, y |-> 100]>>}

DetectorFaces == [box : DetectorBoxes, keypoints : DetectorKeypoints]

FaceLists ==
    UNION {[1..n -> DetectorFaces] : n \in 0..MaxFaces}

Init ==
    /\ model = "null"
    /\ pc = "idle"
    /\ image = NoImage
    /\ faces = <<>>
    /\ box = NoBox
    /\ keypoints = <<>>
    /\ measurements = NoMeasurements
    /\ confidence = NoQuotient
    /\ faceShape = Unset
    /\ rgb = NoRgb
    /\ skinTone = Unset
    /\ recommendations = <<>>
    /\ outcome = "pending"
    /\ steps = NoSteps
    /\ history = <<>>
    /\ detectors = 0
    /\ NoComponent

\* initialize(), lines 22-34: nothing when the model is set; else the two
\* awaits, then the assignment.
InitializeCall ==
    /\ pc \in {"idle", "done"}
    /\ pc' = IF model = "null" THEN "tfReady" ELSE pc
    /\ UNCHANGED <<model, image, faces, box, keypoints, measurements,
                   confidence, faceShape, rgb, skinTone, recommendations,
                   outcome, steps, history>>
    /\ UNCHANGED <<detectors, componentVars>>

InitializeTfReady ==
    /\ pc = "tfReady"
    /\ pc' = "createDetector"
    /\ UNCHANGED <<model, image, faces, box, keypoints, measurements,
                   confidence, faceShape, rgb, skinTone, recommendations,
                   outcome, steps, history>>
    /\ UNCHANGED <<detectors, componentVars>>

InitializeCreateDetector ==
    /\ pc = "createDetector"
    /\ model' = "detector"
    /\ pc' = IF outcome = "pending" THEN "idle" ELSE "done"
    /\ UNCHANGED <<image, faces, box, keypoints, measurements, confidence,
                   faceShape, rgb, skinTone, recommendations, outcome, steps,
                   history>>
    /\ detectors' = detectors + 1
    /\ UNCHANGED componentVars

\* The call that, finding no model, creates the detector itself and goes on.
AnalyzeFaceStartMutInit(img) ==
    /\ pc \in {"idle", "done"}
    /\ image' = img
    /\ faces' = <<>>
    /\ box' = NoBox
    /\ keypoints' = <<>>
    /\ measurements' = NoMeasurements
    /\ confidence' = NoQuotient
    /\ faceShape' = Unset
    /\ rgb' = NoRgb
    /\ skinTone' = Unset
    /\ recommendations' = <<>>
    /\ outcome' = "pending"
    /\ pc' = "estimateFaces"
    /\ steps' = [NoSteps EXCEPT !.estimateFaces = 1]
    /\ model' = "detector"
    /\ UNCHANGED <<detectors, componentVars>>

\* The call with the sample and the tone kept in fields of the service,
\* which a new call does not clear.
AnalyzeFaceStartMutKeep(img) ==
    /\ pc \in {"idle", "done"}
    /\ image' = img
    /\ faces' = <<>>
    /\ box' = NoBox
    /\ keypoints' = <<>>
    /\ measurements' = NoMeasurements
    /\ confidence' = NoQuotient
    /\ faceShape' = Unset
    /\ recommendations' = <<>>
    /\ IF model = "null"
       THEN /\ outcome' = ModelNotInitialized
            /\ pc' = "done"
            /\ steps' = NoSteps
       ELSE /\ outcome' = "pending"
            /\ pc' = "estimateFaces"
            /\ steps' = [NoSteps EXCEPT !.estimateFaces = 1]
    /\ UNCHANGED <<model, rgb, skinTone>>
    /\ UNCHANGED <<detectors, componentVars>>

\* analyzeFace(imageElement), lines 36-44: a fresh call; throws when the
\* model is null, else calls the detector and suspends.
AnalyzeFaceStart(img) ==
    /\ pc \in {"idle", "done"}
    /\ image' = img
    /\ faces' = <<>>
    /\ box' = NoBox
    /\ keypoints' = <<>>
    /\ measurements' = NoMeasurements
    /\ confidence' = NoQuotient
    /\ faceShape' = Unset
    /\ rgb' = NoRgb
    /\ skinTone' = Unset
    /\ recommendations' = <<>>
    /\ IF model = "null"
       THEN /\ outcome' = ModelNotInitialized
            /\ pc' = "done"
            /\ steps' = NoSteps
       ELSE /\ outcome' = "pending"
            /\ pc' = "estimateFaces"
            /\ steps' = [NoSteps EXCEPT !.estimateFaces = 1]
    /\ UNCHANGED model
    /\ UNCHANGED <<detectors, componentVars>>

AnalyzeFaceCall == \E img \in Images : AnalyzeFaceStart(img) /\ UNCHANGED history

\* Lines 46-56: the detector's list arrives.  Empty: throw.  Else the first
\* face is measured and classified and analyzeSkinTone is called, which
\* runs to its return or its throw; analyzeFace suspends on its promise.
\* The step with the detector called once more on an empty list.
AnalyzeFaceMutRetry(fs) ==
    /\ pc = "estimateFaces"
    /\ faces' = fs
    /\ IF Len(fs) = 0
       THEN /\ pc' = IF steps.estimateFaces < 2 THEN "estimateFaces" ELSE "done"
            /\ outcome' = IF steps.estimateFaces < 2 THEN "pending" ELSE NoFaceDetected
            /\ steps' = IF steps.estimateFaces < 2
                        THEN [steps EXCEPT !.estimateFaces = @ + 1] ELSE steps
            /\ UNCHANGED <<box, keypoints, measurements, confidence,
                           faceShape, rgb, skinTone>>
       ELSE LET face == fs[1]
                got == calculateMeasurements(face.box, face.keypoints)
            IN  /\ box' = face.box
                /\ keypoints' = face.keypoints
                /\ measurements' = got.measurements
                /\ confidence' = got.confidence
                /\ faceShape' = determineFaceShape(got.measurements)
                /\ pc' = "analyzeSkinTone"
                /\ outcome' = "pending"
                /\ IF image.context
                   THEN /\ rgb' = sampleRgb(image)
                        /\ skinTone' = classifySkinTone(rgb'.r, rgb'.g, rgb'.b)
                   ELSE UNCHANGED <<rgb, skinTone>>
                /\ steps' = [steps EXCEPT !.calculateMeasurements = @ + 1,
                                          !.determineFaceShape = @ + 1,
                                          !.analyzeSkinTone = @ + 1]
    /\ UNCHANGED <<model, image, recommendations, history>>
    /\ UNCHANGED <<detectors, componentVars>>

\* The step that takes the last face of the list.
AnalyzeFaceFacesMutLast(fs) ==
    /\ pc = "estimateFaces"
    /\ faces' = fs
    /\ IF Len(fs) = 0
       THEN /\ pc' = "done"
            /\ outcome' = NoFaceDetected
            /\ UNCHANGED <<box, keypoints, measurements, confidence,
                           faceShape, rgb, skinTone, steps>>
       ELSE LET face == fs[Len(fs)]
                got == calculateMeasurements(face.box, face.keypoints)
            IN  /\ box' = face.box
                /\ keypoints' = face.keypoints
                /\ measurements' = got.measurements
                /\ confidence' = got.confidence
                /\ faceShape' = determineFaceShape(got.measurements)
                /\ pc' = "analyzeSkinTone"
                /\ outcome' = "pending"
                /\ IF image.context
                   THEN /\ rgb' = sampleRgb(image)
                        /\ skinTone' = classifySkinTone(rgb'.r, rgb'.g, rgb'.b)
                   ELSE UNCHANGED <<rgb, skinTone>>
                /\ steps' = [steps EXCEPT !.calculateMeasurements = @ + 1,
                                          !.determineFaceShape = @ + 1,
                                          !.analyzeSkinTone = @ + 1]
    /\ UNCHANGED <<model, image, recommendations, history>>
    /\ UNCHANGED <<detectors, componentVars>>

AnalyzeFaceFaces(fs) ==
    /\ pc = "estimateFaces"
    /\ faces' = fs
    /\ IF Len(fs) = 0
       THEN /\ pc' = "done"
            /\ outcome' = NoFaceDetected
            /\ UNCHANGED <<box, keypoints, measurements, confidence,
                           faceShape, rgb, skinTone, steps>>
       ELSE LET face == fs[1]
                got == calculateMeasurements(face.box, face.keypoints)
            IN  /\ box' = face.box
                /\ keypoints' = face.keypoints
                /\ measurements' = got.measurements
                /\ confidence' = got.confidence
                /\ faceShape' = determineFaceShape(got.measurements)
                /\ pc' = "analyzeSkinTone"
                /\ outcome' = "pending"
                /\ IF image.context
                   THEN /\ rgb' = sampleRgb(image)
                        /\ skinTone' = classifySkinTone(rgb'.r, rgb'.g, rgb'.b)
                   ELSE UNCHANGED <<rgb, skinTone>>
                /\ steps' = [steps EXCEPT !.calculateMeasurements = @ + 1,
                                          !.determineFaceShape = @ + 1,
                                          !.analyzeSkinTone = @ + 1]
    /\ UNCHANGED <<model, image, recommendations, history>>
    /\ UNCHANGED <<detectors, componentVars>>

EstimateFacesResolves == \E fs \in FaceLists : AnalyzeFaceFaces(fs)

\* The step that catches analyzeSkinTone's error and returns what it has.
AnalyzeFaceSkinToneMutCatch ==
    /\ pc = "analyzeSkinTone"
    /\ pc' = "done"
    /\ outcome' = "returned"
    /\ IF skinTone = Unset
       THEN UNCHANGED <<recommendations, steps>>
       ELSE /\ recommendations' = generateRecommendations(faceShape, skinTone)
            /\ steps' = [steps EXCEPT !.generateRecommendations = @ + 1]
    /\ UNCHANGED <<model, image, faces, box, keypoints, measurements,
                   confidence, faceShape, rgb, skinTone, history>>
    /\ UNCHANGED <<detectors, componentVars>>

\* Lines 56-65: analyzeSkinTone's promise settles.  Rejected (no canvas
\* context): the error leaves analyzeFace.  Else the recommendations are
\* generated and the result is returned.
AnalyzeFaceSkinTone ==
    /\ pc = "analyzeSkinTone"
    /\ pc' = "done"
    /\ IF skinTone = Unset
       THEN /\ outcome' = NoCanvasContext
            /\ UNCHANGED <<recommendations, steps>>
       ELSE /\ recommendations' = generateRecommendations(faceShape, skinTone)
            /\ outcome' = "returned"
            /\ steps' = [steps EXCEPT !.generateRecommendations = @ + 1]
    /\ UNCHANGED <<model, image, faces, box, keypoints, measurements,
                   confidence, faceShape, rgb, skinTone, history>>
    /\ UNCHANGED <<detectors, componentVars>>

Next ==
    \/ InitializeCall
    \/ InitializeTfReady
    \/ InitializeCreateDetector
    \/ AnalyzeFaceCall
    \/ EstimateFacesResolves
    \/ AnalyzeFaceSkinTone

Spec == Init /\ [][Next]_vars

\* The record analyzeFace returns, lines 59-65.
Result ==
    [faceShape |-> faceShape, skinTone |-> skinTone,
     recommendations |-> recommendations, measurements |-> measurements,
     confidence |-> confidence]

(***************************************************************************)
(* The claims.                                                             *)
(***************************************************************************)

\* The cascade as the ordered list of its rules, on whole numbers.
\* |foreheadWidth/jawWidth - 1| < 0.1 is taken in the doubles the function
\* computes in (see AbsMinusOneLessTenth).
Rule1(m) == 100 * m.faceHeight >= 175 * m.faceWidth
NearOne(m) == AbsMinusOneLessTenth(<<m.foreheadWidth, m.jawWidth>>)
Rule2(m) == 100 * m.faceHeight < 125 * m.faceWidth /\ NearOne(m)
Rule3(m) == 10 * m.foreheadWidth < 9 * m.jawWidth
Rule4(m) == 10 * m.foreheadWidth > 11 * m.jawWidth
Rule5(m) ==
    /\ 65 * m.faceHeight < 100 * m.faceWidth
    /\ 100 * m.faceWidth < 75 * m.faceHeight
    /\ NearOne(m)
ShortChin(m) == 100 * m.chinLength < 15 * m.faceHeight

Cascade(m) ==
    <<[when |-> Rule1(m), label |-> "Oblong"],
      [when |-> Rule2(m), label |-> "Round"],
      [when |-> Rule3(m), label |-> IF ShortChin(m) THEN "Triangle" ELSE "Diamond"],
      [when |-> Rule4(m),
       label |-> IF ShortChin(m) THEN "Heart" ELSE "Inverted Triangle"],
      [when |-> Rule5(m), label |-> "Square"],
      [when |-> TRUE, label |-> "Oval"]>>

FirstMatch(m) ==
    LET rules == Cascade(m)
        first == CHOOSE i \in 1..Len(rules) :
                    rules[i].when /\ \A j \in 1..(i - 1) : ~rules[j].when
    IN  rules[first].label

ShapeReturned == pc = "determineFaceShape" /\ steps.determineFaceShape > 0

ToneReturned == pc = "classifySkinTone" /\ skinTone # Unset

ToneOf(sample) ==
    LET sum == sample.r + sample.g + sample.b
        warmth == sample.r - sample.b
    IN  IF sum > 3 * 200 THEN "Fair"
        ELSE IF sum > 3 * 170
        THEN (IF warmth > 60 THEN "Warm Light" ELSE "Cool Light")
        ELSE IF sum > 3 * 140
        THEN (IF warmth > 40 THEN "Warm Medium" ELSE "Cool Medium")
        ELSE IF sum > 3 * 100
        THEN (IF warmth > 30 THEN "Warm Deep" ELSE "Cool Deep")
        ELSE "Deep"

\* C2: classifySkinTone returns the label of the brightness bracket and of
\* the warmth within it, always one of the eight labels; (150, 120, 80) is
\* Warm Deep and (210, 205, 200) is Fair.
C2_ToneBrackets ==
    ToneReturned =>
        /\ skinTone = ToneOf(rgb)
        /\ skinTone \in SkinTones
        /\ rgb = [r |-> 150, g |-> 120, b |-> 80] => skinTone = "Warm Deep"
        /\ rgb = [r |-> 210, g |-> 205, b |-> 200] => skinTone = "Fair"

C2_Witness ==
    /\ ToneReturned
    /\ rgb = [r |-> 150, g |-> 120, b |-> 80]
    /\ skinTone = "Warm Deep"

\* C3: with faceWidth, faceHeight, jawWidth or foreheadWidth zero after
\* extraction, no face-shape label is computed and analyzeFace returns no
\* result.
Degenerate(m) ==
    m.faceWidth = 0 \/ m.faceHeight = 0 \/ m.jawWidth = 0 \/ m.foreheadWidth = 0

C3_DegenerateRaises ==
    (measurements # NoMeasurements /\ Degenerate(measurements)) =>
        /\ faceShape = Unset
        /\ outcome # "returned"

DetectorAnsweredEmpty ==
    steps.estimateFaces > 0 /\ pc # "estimateFaces" /\ faces = <<>>

\* C4: when the detector answers with the empty list, analyzeFace fails
\* with the no-face error, no later step has run or left a value, and the
\* detector was called once.
C4_NoFace ==
    /\ DetectorAnsweredEmpty =>
        /\ outcome = NoFaceDetected
        /\ pc = "done"
    /\ outcome = NoFaceDetected =>
        /\ faces = <<>>
        /\ steps = [NoSteps EXCEPT !.estimateFaces = 1]
        /\ measurements = NoMeasurements
        /\ confidence = NoQuotient
        /\ faceShape = Unset
        /\ rgb = NoRgb
        /\ skinTone = Unset
        /\ recommendations = <<>>

C4_Witness ==
    /\ DetectorAnsweredEmpty
    /\ outcome = NoFaceDetected
    /\ steps.estimateFaces = 1

MeasuresReturned == pc = "calculateMeasurements" /\ measurements # NoMeasurements

Has(name) == \E i \in 1..Len(keypoints) : keypoints[i].name = name
At(name) == keypoints[CHOOSE i \in 1..Len(keypoints) : keypoints[i].name = name]
SquaredDistance(a, b) ==
    (At(a).x - At(b).x) * (At(a).x - At(b).x)
        + (At(a).y - At(b).y) * (At(a).y - At(b).y)

\* C5: faceWidth and faceHeight are the box's; foreheadWidth is 1.3 times
\* the eye distance, or 1.3 * 0.4 * faceWidth unless both eyes are there;
\* jawWidth is 0.9 times the cheek distance, or 0.85 * faceWidth unless both
\* cheeks are there; chinLength is 1.5 times the nose-mouth distance, or
\* 0.2 * faceHeight unless both are there.  (Lengths are not negative, so a
\* length is stated by its square.)
C5_Measurements ==
    MeasuresReturned =>
        LET m == measurements
        IN  /\ m.faceWidth = box.width
            /\ m.faceHeight = box.height
            /\ m.foreheadWidth >= 0 /\ m.jawWidth >= 0 /\ m.chinLength >= 0
            /\ IF Has("leftEye") /\ Has("rightEye")
               THEN 100 * m.foreheadWidth * m.foreheadWidth
                        = 169 * SquaredDistance("leftEye", "rightEye")
               ELSE 100 * m.foreheadWidth = 52 * m.faceWidth
            /\ IF Has("leftCheek") /\ Has("rightCheek")
               THEN 100 * m.jawWidth * m.jawWidth
                        = 81 * SquaredDistance("leftCheek", "rightCheek")
               ELSE 100 * m.jawWidth = 85 * m.faceWidth
            /\ IF Has("noseTip") /\ Has("mouth")
               THEN 4 * m.chinLength * m.chinLength
                        = 9 * SquaredDistance("noseTip", "mouth")
               ELSE 10 * m.chinLength = 2 * m.faceHeight

\* One eye only (the fallback), both cheeks at a distance of 50.
C5_Witness ==
    /\ MeasuresReturned
    /\ Has("leftEye") /\ ~Has("rightEye")
    /\ Has("leftCheek") /\ Has("rightCheek")
    /\ box.width = 100
    /\ measurements.foreheadWidth = 52
    /\ measurements.jawWidth = 45

SixNames == {"leftEye", "rightEye", "noseTip", "mouth", "leftCheek", "rightCheek"}
Present == {name \in SixNames : Has(name)}

\* C6: confidence is the number of the six names present over 6: between 0
\* and 1, 1 exactly when all six are present, whatever the coordinates, the
\* box and the keypoints of other names.
C6_Confidence ==
    MeasuresReturned =>
        /\ confidence = <<Cardinality(Present), 6>>
        /\ 0 <= confidence[1] /\ confidence[1] <= confidence[2]
        /\ confidence[1] = confidence[2] <=> Present = SixNames

\* All six present and a seventh keypoint besides.
C6_Witness ==
    /\ MeasuresReturned
    /\ Present = SixNames
    /\ Has("leftEar")
    /\ confidence = <<6, 6>>

\* C7: on a record with positive faceWidth, faceHeight, jawWidth and
\* foreheadWidth, determineFaceShape returns a label of the FaceShape set,
\* and every further call on the record returns that label again.
C7_TotalAndRepeatable ==
    (/\ ShapeReturned
     /\ measurements.faceWidth > 0 /\ measurements.faceHeight > 0
     /\ measurements.jawWidth > 0 /\ measurements.foreheadWidth > 0) =>
        /\ faceShape \in FaceShapes
        /\ \A i \in 1..Len(history) : history[i] = faceShape

\* A second call on a record of the Square rule.
C7_Witness ==
    /\ ShapeReturned
    /\ steps.determineFaceShape = 2
    /\ measurements.foreheadWidth > 0
    /\ history = <<"Square">>
    /\ faceShape = "Square"

\* C8: the thresholds are strict.  Brightness 200 is a Light, 170 a Medium,
\* 140 a Deep of the warm or cool kind, 100 is Deep; warmth 60, 40 or 30 in
\* its bracket is the Cool label.
C8_StrictThresholds ==
    ToneReturned =>
        LET sum == rgb.r + rgb.g + rgb.b
            warmth == rgb.r - rgb.b
        IN  /\ sum = 3 * 200 => skinTone \in {"Warm Light", "Cool Light"}
            /\ sum = 3 * 170 => skinTone \in {"Warm Medium", "Cool Medium"}
            /\ sum = 3 * 140 => skinTone \in {"Warm Deep", "Cool Deep"}
            /\ sum = 3 * 100 => skinTone = "Deep"
            /\ (3 * 170 < sum /\ sum <= 3 * 200 /\ warmth = 60)
                   => skinTone = "Cool Light"
            /\ (3 * 140 < sum /\ sum <= 3 * 170 /\ warmth = 40)
                   => skinTone = "Cool Medium"
            /\ (3 * 100 < sum /\ sum <= 3 * 140 /\ warmth = 30)
                   => skinTone = "Cool Deep"

\* Brightness exactly 200 and warmth exactly 60.
C8_Witness ==
    /\ ToneReturned
    /\ rgb = [r |-> 230, g |-> 200, b |-> 170]
    /\ skinTone = "Cool Light"

ToneStrings ==
    {warmStrings[i] : i \in 1..Len(warmStrings)}
        \cup {coolStrings[i] : i \in 1..Len(coolStrings)}

\* How many strings the list holds before its first tone string.
ShapeStrings(list) ==
    Cardinality({i \in 1..Len(list) : \A j \in 1..i : list[j] \notin ToneStrings})

\* C9: for every label determineFaceShape returns, the list analyzeFace gets
\* from generateRecommendations begins with 2 or 3 shape strings.
C9_ShapeEntryForEveryLabel ==
    outcome = "returned" => ShapeStrings(recommendations) \in 2..3

RecsReturned == pc = "generateRecommendations" /\ steps.generateRecommendations > 0

\* C10: for every pair of a FaceShape and a SkinTone the list is not empty,
\* and a further call with the pair returns the same strings in the same
\* order.
C10_NonEmptyAndRepeatable ==
    RecsReturned =>
        /\ Len(recommendations) > 0
        /\ \A i \in 1..Len(history) : history[i] = recommendations

\* The shape without a case of the switch, and a tone without "Warm" or
\* "Cool" in its name, called twice.
C10_Witness ==
    /\ RecsReturned
    /\ faceShape = "Inverted Triangle"
    /\ skinTone = "Deep"
    /\ steps.generateRecommendations = 2
    /\ history = <<coolStrings>>
    /\ recommendations = coolStrings

(***************************************************************************)
(* SpecPairs: generateRecommendations called MaxCalls times, each time     *)
(* with a pair of labels of its own; history keeps the earlier calls, as   *)
(* [shape, tone, list].                                                    *)
(***************************************************************************)
InitPairs ==
    /\ pc = "generateRecommendations"
    /\ faceShape = Unset
    /\ skinTone = Unset
    /\ model = "detector"
    /\ image = NoImage
    /\ faces = <<>>
    /\ box = NoBox
    /\ keypoints = <<>>
    /\ measurements = NoMeasurements
    /\ confidence = NoQuotient
    /\ rgb = NoRgb
    /\ recommendations = <<>>
    /\ outcome = "pending"
    /\ steps = NoSteps
    /\ history = <<>>
    /\ detectors = 0
    /\ NoComponent

CallGenerateRecommendationsWith(shape, tone) ==
    /\ pc = "generateRecommendations"
    /\ steps.generateRecommendations < MaxCalls
    /\ faceShape' = shape
    /\ skinTone' = tone
    /\ recommendations' = generateRecommendations(shape, tone)
    /\ history' = IF steps.generateRecommendations = 0 THEN history
                  ELSE Append(history, [shape |-> faceShape, tone |-> skinTone,
                                        list |-> recommendations])
    /\ steps' = [steps EXCEPT !.generateRecommendations = @ + 1]
    /\ UNCHANGED <<model, pc, image, faces, box, keypoints, measurements,
                   confidence, rgb, outcome>>
    /\ UNCHANGED <<detectors, componentVars>>

NextPairs ==
    \E shape \in FaceShapes, tone \in SkinTones :
        CallGenerateRecommendationsWith(shape, tone)

SpecPairs == InitPairs /\ [][NextPairs]_vars

\* A list cut before its first tone string.
ShapeSegment(list) == SubSeq(list, 1, ShapeStrings(list))
ToneSegment(list) == SubSeq(list, ShapeStrings(list) + 1, Len(list))

WarmTones == {"Warm Light", "Warm Medium", "Warm Deep"}

\* C11: the list is a shape segment followed by a tone segment; two calls
\* with the same shape have the same shape segment whatever their tones, and
\* two calls whose tones agree on holding "Warm" have the same tone segment
\* whatever their shapes.
C11_SegmentsIndependent ==
    RecsReturned =>
        /\ \A i \in 1..Len(ToneSegment(recommendations)) :
               ToneSegment(recommendations)[i] \in ToneStrings
        /\ Len(ToneSegment(recommendations)) > 0
        /\ \A k \in 1..Len(history) :
               /\ history[k].shape = faceShape =>
                      ShapeSegment(history[k].list) = ShapeSegment(recommendations)
               /\ (history[k].tone \in WarmTones <=> skinTone \in WarmTones) =>
                      ToneSegment(history[k].list) = ToneSegment(recommendations)

\* Round with a warm tone, then Round with Fair: the same three shape
\* strings, other tone strings.
C11_Witness ==
    /\ RecsReturned
    /\ Len(history) = 1
    /\ history[1].shape = "Round" /\ history[1].tone = "Warm Light"
    /\ faceShape = "Round" /\ skinTone = "Fair"
    /\ Len(ShapeSegment(recommendations)) = 3
    /\ ShapeSegment(recommendations) = ShapeSegment(history[1].list)
    /\ ToneSegment(recommendations) # ToneSegment(history[1].list)

\* C12: the tone segment is the warm strings for Warm Light, Warm Medium and
\* Warm Deep, and the cool strings for the three Cool tones, Fair and Deep.
C12_WarmOrCool ==
    RecsReturned =>
        /\ skinTone \in WarmTones => ToneSegment(recommendations) = warmStrings
        /\ skinTone \in {"Cool Light", "Cool Medium", "Cool Deep", "Fair", "Deep"}
               => ToneSegment(recommendations) = coolStrings

\* Fair, which holds neither word, gets the cool strings.
C12_Witness ==
    /\ RecsReturned
    /\ skinTone = "Fair"
    /\ ToneSegment(recommendations) = coolStrings
    /\ Len(ShapeSegment(recommendations)) = 3


\* C13: for a box of positive width and height and any keypoint list, the
\* five measurements calculateMeasurements gives are all above zero.
C13_AllPositive ==
    (MeasuresReturned /\ box.width > 0 /\ box.height > 0) =>
        /\ measurements.faceWidth > 0
        /\ measurements.faceHeight > 0
        /\ measurements.foreheadWidth > 0
        /\ measurements.jawWidth > 0
        /\ measurements.chinLength > 0

\* C14: the sampler throws, and analyzeFace returns no result, when the
\* canvas has no context or the image is less than sampleSize wide or high;
\* no sample averages pixels that lie outside the image.
SamplerCalled == steps.analyzeSkinTone > 0

WindowOffImage(img) == img.width < sampleSize \/ img.height < sampleSize

C14_SamplerFailsOffImage ==
    (SamplerCalled /\ (~image.context \/ WindowOffImage(image))) =>
        /\ rgb = NoRgb
        /\ skinTone = Unset
        /\ outcome # "returned"

\* A step of a caller that is not an initialize step: analyzeFace is called.
AnalyzeFaceCalled == pc \in {"idle", "done"} /\ pc' \notin {pc, "tfReady"}

\* The locals of a call that has gone no further than its first test.
NothingRun ==
    /\ steps = NoSteps
    /\ faces = <<>>
    /\ measurements = NoMeasurements
    /\ rgb = NoRgb
    /\ skinTone = Unset
    /\ recommendations = <<>>

\* C15: analyzeFace called while the model is null throws the model error
\* at once: the detector and the sampler are not invoked, the model stays
\* null, and the call is over (nothing of it runs afterwards).
C15_ModelUnavailable ==
    [][/\ (AnalyzeFaceCalled /\ model = "null") =>
              /\ outcome' = ModelNotInitialized
              /\ pc' = "done"
              /\ model' = "null"
       /\ (outcome = ModelNotInitialized) =>
              /\ NothingRun
              /\ pc \in {"done", "tfReady", "createDetector"}]_vars

C15_Witness ==
    /\ outcome = ModelNotInitialized
    /\ model = "null"
    /\ pc = "done"
    /\ image \in Images
    /\ NothingRun

Errors == {ModelNotInitialized, NoFaceDetected, NoCanvasContext}

\* The error of the step that throws in the call that is over, or "none".
Thrown ==
    IF steps.estimateFaces = 0 THEN ModelNotInitialized
    ELSE IF faces = <<>> THEN NoFaceDetected
    ELSE IF ~image.context THEN NoCanvasContext
    ELSE "none"

\* C16: when a step of analyzeFace throws (no model, no face, no canvas
\* context), the caller gets that very error, and no result; a result that
\* is returned has all its five fields; within a call no step runs more
\* than once.  (No step throws for degenerate measurements, see C3.)
C16_ErrorsPropagate ==
    /\ \A step \in DOMAIN steps : steps[step] <= 1
    /\ outcome \in Errors \cup {"pending", "returned"}
    /\ (pc = "done" /\ Thrown # "none") =>
           /\ outcome = Thrown
           /\ recommendations = <<>>
           /\ steps.generateRecommendations = 0
    /\ (outcome = "returned") =>
           /\ Thrown = "none"
           /\ faceShape # Unset /\ skinTone # Unset
           /\ measurements # NoMeasurements /\ confidence # NoQuotient
           /\ steps.generateRecommendations = 1

\* The sampler throws after the face has been measured and classified.
C16_Witness ==
    /\ pc = "done"
    /\ outcome = NoCanvasContext
    /\ faceShape # Unset
    /\ measurements # NoMeasurements
    /\ steps.analyzeSkinTone = 1

\* What one face alone gives: its measurements, confidence and shape.
OfFace(face) ==
    LET got == calculateMeasurements(face.box, face.keypoints)
    IN  [measurements |-> got.measurements,
         confidence |-> got.confidence,
         faceShape |-> determineFaceShape(got.measurements)]

FaceMeasured == Len(faces) >= 1 /\ steps.calculateMeasurements = 1

\* C17: of a list of one or more faces only the first is used: the
\* measurements, the confidence and the face shape are those of the first
\* face alone, so that any other faces at the second place and after give
\* the same.
C17_FirstFaceOnly ==
    FaceMeasured =>
        /\ box = faces[1].box
        /\ keypoints = faces[1].keypoints
        /\ measurements = OfFace(faces[1]).measurements
        /\ confidence = OfFace(faces[1]).confidence
        /\ faceShape = OfFace(faces[1]).faceShape

\* Two faces that alone give different measurements and shapes; the result
\* returned is the first one's.
C17_Witness ==
    /\ outcome = "returned"
    /\ Len(faces) = 2
    /\ OfFace(faces[2]).faceShape # OfFace(faces[1]).faceShape
    /\ OfFace(faces[2]).measurements # OfFace(faces[1]).measurements
    /\ Result.faceShape = OfFace(faces[1]).faceShape

(***************************************************************************)
(* SpecSeq: analyzeFace called again and again on one initialised service. *)
(* history holds, for each call that is over, its inputs and what it gave. *)
(***************************************************************************)
SeqImages ==
    {[width |-> 100, height |-> 100, pixel |-> [r |-> 210, g |-> 205, b |-> 200],
      context |-> TRUE, patch |-> NoRgb, patchWidth |-> 0, patchHeight |-> 0],
     [width |-> 100, height |-> 100, pixel |-> [r |-> 150, g |-> 120, b |-> 80],
      context |-> TRUE, patch |-> NoRgb, patchWidth |-> 0, patchHeight |-> 0],
     [width |-> 40, height |-> 40, pixel |-> [r |-> 210, g |-> 205, b |-> 200],
      context |-> TRUE, patch |-> NoRgb, patchWidth |-> 0, patchHeight |-> 0],
     [width |-> 100, height |-> 100, pixel |-> [r |-> 210, g |-> 205, b |-> 200],
      context |-> FALSE, patch |-> NoRgb, patchWidth |-> 0, patchHeight |-> 0]}

\* The detector's answers: no face, one face, two faces.
SeqFaceLists ==
    LET plain == [box |-> [width |-> 100, height |-> 100], keypoints |-> <<>>]
        eyed == [box |-> [width |-> 100, height |-> 200],
                 keypoints |-> <<[name |-> "rightEye", x |-> 120, y |-> 100],
                                 [name |-> "leftEye", x |-> 80, y |-> 100]>>]
    IN  {<<>>, <<plain>>, <<eyed, plain>>}

\* What the caller of the call that is over has seen of it.
Finished ==
    [image |-> image, faces |-> faces, rgb |-> rgb, outcome |-> outcome,
     result |-> Result]

InitSeq ==
    /\ model = "detector"
    /\ pc = "idle"
    /\ image = NoImage
    /\ faces = <<>>
    /\ box = NoBox
    /\ keypoints = <<>>
    /\ measurements = NoMeasurements
    /\ confidence = NoQuotient
    /\ faceShape = Unset
    /\ rgb = NoRgb
    /\ skinTone = Unset
    /\ recommendations = <<>>
    /\ outcome = "pending"
    /\ steps = NoSteps
    /\ history = <<>>
    /\ detectors = 0
    /\ NoComponent

SeqAnalyzeFaceCall ==
    /\ Len(history) < MaxCalls
    /\ \E img \in SeqImages : AnalyzeFaceStart(img)
    /\ history' = IF pc = "done" THEN Append(history, Finished) ELSE history

SeqEstimateFacesResolves == \E fs \in SeqFaceLists : AnalyzeFaceFaces(fs)

NextSeq ==
    \/ SeqAnalyzeFaceCall
    \/ SeqEstimateFacesResolves
    \/ AnalyzeFaceSkinTone

SpecSeq == InitSeq /\ [][NextSeq]_vars

\* C18: a call's outcome and result depend on nothing but its own detector
\* answer and pixel sample: a call that is over gave what every earlier
\* call with the same image and detector answer gave, and what every
\* earlier call with the same detector answer and sample gave, whatever
\* calls, returned or thrown, came in between.
C18_Stateless ==
    (pc = "done") =>
        \A k \in 1..Len(history) :
            (history[k].faces = faces
                /\ (history[k].image = image \/ history[k].rgb = rgb)) =>
                    /\ history[k].outcome = outcome
                    /\ history[k].result = Result

\* The first call's input run again after a call that threw; a result is
\* returned both times.
C18_Witness ==
    /\ pc = "done"
    /\ Len(history) = 2
    /\ history[1].image = image /\ history[1].faces = faces
    /\ history[2].outcome \in {NoFaceDetected, NoCanvasContext}
    /\ outcome = "returned"
    /\ history[1].result = Result

(***************************************************************************)
(* SpecConc: MaxCalls callers of analyzeFace on one initialised service,   *)
(* interleaved at the awaits.  The call that runs has its locals in the    *)
(* variables; history holds the locals of the calls that are suspended (or *)
(* not begun, or over).  Every step of the model runs from one await to    *)
(* the next, so any state is a point where another call may be resumed.    *)
(***************************************************************************)
\* The locals of the call in the variables.
Frame ==
    [pc |-> pc, image |-> image, faces |-> faces, box |-> box,
     keypoints |-> keypoints, measurements |-> measurements,
     confidence |-> confidence, faceShape |-> faceShape, rgb |-> rgb,
     skinTone |-> skinTone, recommendations |-> recommendations,
     outcome |-> outcome, steps |-> steps]

IdleFrame ==
    [pc |-> "idle", image |-> NoImage, faces |-> <<>>, box |-> NoBox,
     keypoints |-> <<>>, measurements |-> NoMeasurements,
     confidence |-> NoQuotient, faceShape |-> Unset, rgb |-> NoRgb,
     skinTone |-> Unset, recommendations |-> <<>>, outcome |-> "pending",
     steps |-> NoSteps]

\* A resumed call with the sample and the tone read from the service, as
\* the call that ran last left them.
ResumedMutShared(frame) == [frame EXCEPT !.rgb = rgb, !.skinTone = skinTone]

\* A resumed call finds its locals as it left them: they are consts of the
\* invocation, lines 42-57 and 173-203, not fields of the service.
Resumed(frame) == frame

InitConc ==
    /\ model = "detector"
    /\ pc = "idle"
    /\ image = NoImage
    /\ faces = <<>>
    /\ box = NoBox
    /\ keypoints = <<>>
    /\ measurements = NoMeasurements
    /\ confidence = NoQuotient
    /\ faceShape = Unset
    /\ rgb = NoRgb
    /\ skinTone = Unset
    /\ recommendations = <<>>
    /\ outcome = "pending"
    /\ steps = NoSteps
    /\ history = [i \in 1..(MaxCalls - 1) |-> IdleFrame]
    /\ detectors = 0
    /\ NoComponent

ConcAnalyzeFaceCall ==
    \E img \in SeqImages : AnalyzeFaceStart(img) /\ UNCHANGED history

\* The event loop turns to the i-th of the other calls.
Switch(i) ==
    LET frame == Resumed(history[i])
    IN  /\ pc' = frame.pc
        /\ image' = frame.image
        /\ faces' = frame.faces
        /\ box' = frame.box
        /\ keypoints' = frame.keypoints
        /\ measurements' = frame.measurements
        /\ confidence' = frame.confidence
        /\ faceShape' = frame.faceShape
        /\ rgb' = frame.rgb
        /\ skinTone' = frame.skinTone
        /\ recommendations' = frame.recommendations
        /\ outcome' = frame.outcome
        /\ steps' = frame.steps
        /\ history' = [history EXCEPT ![i] = Frame]
        /\ UNCHANGED model
        /\ UNCHANGED <<detectors, componentVars>>

ConcSwitch == \E i \in 1..Len(history) : Switch(i)

NextConc ==
    \/ ConcAnalyzeFaceCall
    \/ SeqEstimateFacesResolves
    \/ AnalyzeFaceSkinTone
    \/ ConcSwitch

SpecConc == InitConc /\ [][NextConc]_vars

\* What a call with that image and that detector answer gives when it runs
\* alone: the steps one after another, each on the call's own values.
Alone(img, fs) ==
    IF fs = <<>> THEN [outcome |-> NoFaceDetected]
    ELSE IF ~img.context THEN [outcome |-> NoCanvasContext]
    ELSE LET sample == sampleRgb(img)
             tone == classifySkinTone(sample.r, sample.g, sample.b)
         IN  [outcome |-> "returned",
              faceShape |-> OfFace(fs[1]).faceShape,
              skinTone |-> tone,
              recommendations |->
                  generateRecommendations(OfFace(fs[1]).faceShape, tone),
              measurements |-> OfFace(fs[1]).measurements,
              confidence |-> OfFace(fs[1]).confidence]

\* What the caller of a call that is over has got.
Got(frame) ==
    IF frame.outcome # "returned" THEN [outcome |-> frame.outcome]
    ELSE [outcome |-> "returned",
          faceShape |-> frame.faceShape,
          skinTone |-> frame.skinTone,
          recommendations |-> frame.recommendations,
          measurements |-> frame.measurements,
          confidence |-> frame.confidence]

\* A call suspended on analyzeSkinTone holds its own face's measurements
\* and its own image's sample.
OwnValues(frame) ==
    /\ frame.measurements = OfFace(frame.faces[1]).measurements
    /\ frame.faceShape = OfFace(frame.faces[1]).faceShape
    /\ frame.rgb = IF frame.image.context THEN sampleRgb(frame.image) ELSE NoRgb

AllFrames == {Frame} \cup {history[i] : i \in 1..Len(history)}

\* C19: with calls interleaved at their awaits, every call that is over has
\* given what it gives alone, and every call suspended on the sampler holds
\* the measurements and the sample of its own inputs: no call sees or
\* overwrites a value of another.
C19_ConcurrentAsAlone ==
    \A frame \in AllFrames :
        /\ frame.pc = "done" => Got(frame) = Alone(frame.image, frame.faces)
        /\ frame.pc = "analyzeSkinTone" => OwnValues(frame)

\* Two calls in flight at once, both suspended on the sampler, each with
\* the measurements of its own face and the sample of its own image.
C19_Witness ==
    /\ pc = "analyzeSkinTone"
    /\ Len(history) >= 1
    /\ history[1].pc = "analyzeSkinTone"
    /\ rgb # NoRgb /\ history[1].rgb # NoRgb /\ history[1].rgb # rgb
    /\ history[1].measurements # measurements
    /\ OwnValues(Frame) /\ OwnValues(history[1])

(***************************************************************************)
(* SpecSample: analyzeSkinTone applied to one image.  The canvas is at     *)
(* least sampleSize wide and high, of the colour image.pixel but for a     *)
(* patch at its top left corner; its pixels have an alpha besides.         *)
(***************************************************************************)
SampleSides == {50, 51, 60}
SampleColours ==
    {[r |-> 210, g |-> 205, b |-> 200, a |-> 255],
     [r |-> 0, g |-> 1, b |-> 255, a |-> 128]}
PatchColours ==
    {[r |-> 150, g |-> 120, b |-> 80, a |-> 255],
     [r |-> 3, g |-> 2, b |-> 254, a |-> 0]}
PatchSides == {0, 1, 30}

SampleImages ==
    [width : SampleSides, height : SampleSides, pixel : SampleColours,
     context : BOOLEAN, patch : PatchColours, patchWidth : PatchSides,
     patchHeight : PatchSides \ {0}]

InitSample ==
    /\ pc = "analyzeSkinTone"
    /\ image \in SampleImages
    /\ model = "detector"
    /\ faces = <<>>
    /\ box = NoBox
    /\ keypoints = <<>>
    /\ measurements = NoMeasurements
    /\ confidence = NoQuotient
    /\ faceShape = Unset
    /\ rgb = NoRgb
    /\ skinTone = Unset
    /\ recommendations = <<>>
    /\ outcome = "pending"
    /\ steps = NoSteps
    /\ history = <<>>
    /\ detectors = 0
    /\ NoComponent

\* analyzeSkinTone(imageElement), lines 172-206.
CallAnalyzeSkinTone ==
    /\ pc = "analyzeSkinTone"
    /\ steps.analyzeSkinTone = 0
    /\ IF image.context
       THEN /\ rgb' = sampleRgb(image)
            /\ skinTone' = classifySkinTone(rgb'.r, rgb'.g, rgb'.b)
            /\ outcome' = "returned"
       ELSE /\ outcome' = NoCanvasContext
            /\ UNCHANGED <<rgb, skinTone>>
    /\ steps' = [steps EXCEPT !.analyzeSkinTone = 1]
    /\ UNCHANGED <<model, pc, image, faces, box, keypoints, measurements,
                   confidence, faceShape, recommendations, history>>
    /\ UNCHANGED <<detectors, componentVars>>

NextSample == CallAnalyzeSkinTone

SpecSample == InitSample /\ [][NextSample]_vars

\* The window pixel by pixel, from its top left corner.
Left(img) == (img.width \div 2) - 25
Top(img) == (img.height \div 2) - 25

PixelAt(img, x, y) ==
    IF x < img.patchWidth /\ y < img.patchHeight THEN img.patch ELSE img.pixel

RECURSIVE RowSum(_, _, _, _)
RowSum(img, channel, y, n) ==
    IF n = 0 THEN 0
    ELSE PixelAt(img, Left(img) + n - 1, y)[channel] + RowSum(img, channel, y, n - 1)

RECURSIVE WindowSum(_, _, _)
WindowSum(img, channel, n) ==
    IF n = 0 THEN 0
    ELSE RowSum(img, channel, Top(img) + n - 1, 50) + WindowSum(img, channel, n - 1)

Sampled == pc = "analyzeSkinTone" /\ steps.analyzeSkinTone = 1 /\ image.context

FaceBoxes ==
    Boxes \cup {[width |-> 400, height |-> 700],
                [width |-> 400, height |-> 600],
                [width |-> 300, height |-> 500]}

InitFace ==
    /\ pc = "calculateMeasurements"
    /\ box \in FaceBoxes
    /\ keypoints \in {KeypointList(f) : f \in Placements}
    /\ model = "detector"
    /\ image = NoImage
    /\ faces = <<>>
    /\ measurements = NoMeasurements
    /\ confidence = NoQuotient
    /\ faceShape = Unset
    /\ rgb = NoRgb
    /\ skinTone = Unset
    /\ recommendations = <<>>
    /\ outcome = "pending"
    /\ steps = NoSteps
    /\ history = <<>>
    /\ detectors = 0
    /\ NoComponent

MeasureAndClassify ==
    /\ pc = "calculateMeasurements"
    /\ steps.calculateMeasurements = 0
    /\ LET got == calculateMeasurements(box, keypoints)
       IN  /\ measurements' = got.measurements
           /\ confidence' = got.confidence
           /\ faceShape' = determineFaceShape(got.measurements)
    /\ steps' = [steps EXCEPT !.calculateMeasurements = 1,
                              !.determineFaceShape = 1]
    /\ UNCHANGED <<model, pc, image, faces, box, keypoints, rgb, skinTone,
                   recommendations, outcome, history>>
    /\ UNCHANGED <<detectors, componentVars>>

NextFace == MeasureAndClassify

SpecFace == InitFace /\ [][NextFace]_vars

FaceClassified == pc = "calculateMeasurements" /\ steps.determineFaceShape = 1

\* The six names that are in the keypoint list.
NamesPresent == {keypoints[i].name : i \in 1..Len(keypoints)} \cap SixNames

\* C21: a 200 x 200 box with, of the six names, only leftEye at (80, 100)
\* and rightEye at (120, 100) gives foreheadWidth 52, jawWidth 170,
\* chinLength 40, confidence 2/6 and the shape Diamond: height / width is
\* below 1.25, but forehead / jaw is not within 0.1 of 1, so the Round rule
\* does not fire.
C21_ExampleDiamond ==
    (/\ FaceClassified
     /\ box = [width |-> 200, height |-> 200]
     /\ NamesPresent = {"leftEye", "rightEye"}
     /\ <<At("leftEye").x, At("leftEye").y>> = <<80, 100>>
     /\ <<At("rightEye").x, At("rightEye").y>> = <<120, 100>>) =>
        /\ measurements = [faceWidth |-> 200, faceHeight |-> 200,
                           foreheadWidth |-> 52, jawWidth |-> 170,
                           chinLength |-> 40]
        /\ confidence = <<2, 6>>
        /\ faceShape = "Diamond"
        /\ 100 * measurements.faceHeight < 125 * measurements.faceWidth
        /\ ~NearOne(measurements)

C21_Witness ==
    /\ FaceClassified
    /\ box = [width |-> 200, height |-> 200]
    /\ keypoints = <<[name |-> "rightEye", x |-> 120, y |-> 100],
                     [name |-> "leftEye", x |-> 80, y |-> 100]>>
    /\ measurements.foreheadWidth = 52
    /\ faceShape = "Diamond"

\* C28: with none of the six names in the list and a box of positive width
\* and height, foreheadWidth is 0.52 of the width, jawWidth 0.85 of the
\* width, chinLength 0.2 of the height, the confidence is 0, and the shape
\* is Oblong when height >= 1.75 * width and Diamond when not.
C28_FallbackShapes ==
    (FaceClassified /\ NamesPresent = {} /\ box.width > 0 /\ box.height > 0) =>
        /\ measurements.faceWidth = box.width
        /\ measurements.faceHeight = box.height
        /\ 100 * measurements.foreheadWidth = 52 * box.width
        /\ 100 * measurements.jawWidth = 85 * box.width
        /\ 10 * measurements.chinLength = 2 * box.height
        /\ confidence = <<0, 6>>
        /\ faceShape = IF 100 * box.height >= 175 * box.width
                       THEN "Oblong" ELSE "Diamond"

\* 400 x 700, height = 1.75 * width, with a keypoint of another name only.
C28_Witness ==
    /\ FaceClassified
    /\ box = [width |-> 400, height |-> 700]
    /\ Len(keypoints) = 1 /\ NamesPresent = {}
    /\ measurements.foreheadWidth = 208
    /\ faceShape = "Oblong"

(***************************************************************************)
(* The box-only revision of the service (src/services/faceAnalysis.ts,     *)
(* lines 240-432): the measurements are fractions of the box, the keypoints*)
(* are not read, and the cascade has six rules on two ratios.              *)
(***************************************************************************)
MaxBoxOnlyUnits == 8

\* The revision with the forehead as wide as the jaw.
calculateMeasurementsBoxOnlyMutForehead(b) ==
    [faceWidth |-> b.width,
     faceHeight |-> b.height,
     jawWidth |-> Times(b.width, 8, 10),
     foreheadWidth |-> Times(b.width, 8, 10),
     chinLength |-> Times(b.height, 2, 10)]

calculateMeasurementsBoxOnly(b) ==
    [faceWidth |-> b.width,
     faceHeight |-> b.height,
     jawWidth |-> Times(b.width, 8, 10),
     foreheadWidth |-> Times(b.width, 7, 10),
     chinLength |-> Times(b.height, 2, 10)]

determineFaceShapeBoxOnly(m) ==
    LET ratio == Quotient(m.faceHeight, m.faceWidth)
        jawForeheadRatio == Quotient(m.jawWidth, m.foreheadWidth)
    IN  IF Greater(ratio, 175, 100) THEN "Oblong"
        ELSE IF Less(ratio, 125, 100) THEN "Round"
        ELSE IF Greater(jawForeheadRatio, 11, 10) THEN "Triangle"
        ELSE IF Less(jawForeheadRatio, 9, 10) THEN "Heart"
        ELSE IF Greater(ratio, 15, 10) /\ Less(ratio, 175, 100) THEN "Square"
        ELSE "Oval"

\* Boxes of whole hundreds, so that the fractions are whole (in doubles up
\* to the last place: 700 * 0.7 is 489.99999999999994, and jaw / forehead
\* stays near 8/7, far from both thresholds); 400 x 700 and 400 x 500 lie
\* on the thresholds of height / width.
BoxOnlyBoxes ==
    [width : {100 * k : k \in 0..MaxBoxOnlyUnits},
     height : {100 * k : k \in 0..MaxBoxOnlyUnits}]

InitBoxOnly ==
    /\ pc = "calculateMeasurements"
    /\ box \in BoxOnlyBoxes
    /\ keypoints = <<>>
    /\ model = "detector"
    /\ image = NoImage
    /\ faces = <<>>
    /\ measurements = NoMeasurements
    /\ confidence = NoQuotient
    /\ faceShape = Unset
    /\ rgb = NoRgb
    /\ skinTone = Unset
    /\ recommendations = <<>>
    /\ outcome = "pending"
    /\ steps = NoSteps
    /\ history = <<>>
    /\ detectors = 0
    /\ NoComponent

\* analyzeFace of the revision, lines 274-275.
MeasureAndClassifyBoxOnly ==
    /\ pc = "calculateMeasurements"
    /\ steps.calculateMeasurements = 0
    /\ measurements' = calculateMeasurementsBoxOnly(box)
    /\ faceShape' = determineFaceShapeBoxOnly(measurements')
    /\ steps' = [steps EXCEPT !.calculateMeasurements = 1,
                              !.determineFaceShape = 1]
    /\ UNCHANGED <<model, pc, image, faces, box, keypoints, confidence, rgb,
                   skinTone, recommendations, outcome, history>>
    /\ UNCHANGED <<detectors, componentVars>>

NextBoxOnly == MeasureAndClassifyBoxOnly

SpecBoxOnly == InitBoxOnly /\ [][NextBoxOnly]_vars

\* C29: in the box-only revision a box of positive width and height gives
\* Oblong when height / width > 1.75, Round when height / width < 1.25 and
\* Triangle in between (the thresholds included); Heart, Square and Oval
\* are not given.
C29_BoxOnlyThreeLabels ==
    (FaceClassified /\ box.width > 0 /\ box.height > 0) =>
        /\ faceShape = IF 100 * box.height > 175 * box.width THEN "Oblong"
                       ELSE IF 100 * box.height < 125 * box.width THEN "Round"
                       ELSE "Triangle"
        /\ faceShape \notin {"Heart", "Square", "Oval"}

\* 200 x 300: height / width = 1.5, between the thresholds.
C29_Witness ==
    /\ FaceClassified
    /\ box = [width |-> 200, height |-> 300]
    /\ measurements.jawWidth = 160 /\ measurements.foreheadWidth = 140
    /\ faceShape = "Triangle"

(***************************************************************************)
(* SpecInit: MaxInitializers callers of initialize on one service,         *)
(* interleaved at its two awaits.  The call that runs has its place in pc; *)
(* history holds the places of the others.                                 *)
(***************************************************************************)
MaxInitializers == 4

InitInit ==
    /\ model = "null"
    /\ pc = "idle"
    /\ image = NoImage
    /\ faces = <<>>
    /\ box = NoBox
    /\ keypoints = <<>>
    /\ measurements = NoMeasurements
    /\ confidence = NoQuotient
    /\ faceShape = Unset
    /\ rgb = NoRgb
    /\ skinTone = Unset
    /\ recommendations = <<>>
    /\ outcome = "pending"
    /\ steps = NoSteps
    /\ history = [i \in 1..(MaxInitializers - 1) |-> "idle"]
    /\ detectors = 0
    /\ NoComponent

\* The event loop turns to the i-th of the other callers of initialize.
InitSwitch(i) ==
    /\ pc' = history[i]
    /\ history' = [history EXCEPT ![i] = pc]
    /\ UNCHANGED <<model, image, faces, box, keypoints, measurements,
                   confidence, faceShape, rgb, skinTone, recommendations,
                   outcome, steps, detectors, componentVars>>

InitializeSwitch == \E i \in 1..Len(history) : InitSwitch(i)

NextInit ==
    \/ InitializeCall
    \/ InitializeTfReady
    \/ InitializeCreateDetector
    \/ InitializeSwitch

SpecInit == InitInit /\ [][NextInit]_vars

\* C22: however the initialize calls on one service interleave, at most one
\* detector is created, and once the model is set no step creates or
\* assigns another.
C22_DetectorCreatedOnce ==
    [][/\ detectors' <= 1
       /\ (model # "null") => (detectors' = detectors /\ model' = model)]_vars

(***************************************************************************)
(* SelfieAnalyzer (src/app/components/SelfieAnalyzer.tsx).  state holds    *)
(* the useState values under their names.  A handler's setState calls, the *)
(* render they cause and the effect clean-up and run of that render are    *)
(* one step: React renders a click's updates, and runs their effects,      *)
(* before the next event is handled.  The debug log (addDebugMessage) is   *)
(* only ever appended to and shown, and is left out.                       *)
(*                                                                         *)
(* The <video> is rendered only while isCameraOpen: each opening of the    *)
(* camera has a new element, which the effect run of that render holds as  *)
(* videoElement; videoRef.current is the element of the last run while the *)
(* camera is open, and null when it is closed.                             *)
(***************************************************************************)
MaxCameras == 1
MaxAnalyses == 2
MaxUploads == 1

Unsupported == "Your browser does not support camera access"
CameraError ==
    "Could not initialize camera. Please ensure permissions are granted and no other app is using the camera."
CaptureError == "Failed to capture image. Please try again."
AnalyzeFallback ==
    "Failed to analyze image. Please ensure your face is clearly visible and try again."
\* The message of whatever tf.ready or createDetector rejects with.
BackendError == "backend not available"

\* The data URLs: of the files the user may choose, and of a captured frame.
Files == {"fileA", "fileB"}
Captured == "selfie"

\* Stops the tracks of stream s (getTracks().forEach(track => track.stop())).
StopTracks(trk, s) == IF s = NoStream THEN trk ELSE [trk EXCEPT ![s] = "stopped"]

\* The four blocks of the render, lines 247, 270, 305 and 331.
StartView == state.image = Null /\ ~state.isCameraOpen
CameraView == state.isCameraOpen
PreviewView == state.image # Null /\ state.analysis = NoAnalysis
ResultView == state.analysis # NoAnalysis

\* The first render, and the mount effect of lines 29-43, which sets the
\* error when the browser has no getUserMedia.  The camera effect's first
\* run returns at once (isCameraOpen is false).
InitUi ==
    /\ model = "null"
    /\ pc = "idle"
    /\ image = NoImage
    /\ faces = <<>>
    /\ box = NoBox
    /\ keypoints = <<>>
    /\ measurements = NoMeasurements
    /\ confidence = NoQuotient
    /\ faceShape = Unset
    /\ rgb = NoRgb
    /\ skinTone = Unset
    /\ recommendations = <<>>
    /\ outcome = "pending"
    /\ steps = NoSteps
    /\ history = <<>>
    /\ detectors = 0
    /\ state \in {NoState, [NoState EXCEPT !.error = Unsupported]}
    /\ effects = <<>>
    /\ tracks = <<>>
    /\ calls = <<>>
    /\ readers = <<>>
    /\ rendered = TRUE

\* The clean-up of the camera effect's last run, lines 102-109, on the
\* effects and on the tracks.
CleanedUp ==
    IF effects = <<>> THEN effects
    ELSE [effects EXCEPT ![Len(effects)] =
              [@ EXCEPT !.mounted = FALSE, !.srcObject = NoStream]]

CleanedUpTracks ==
    IF effects = <<>> THEN tracks
    ELSE StopTracks(tracks, effects[Len(effects)].srcObject)

\* startCamera, lines 112-115, the render with the <video>, and the effect
\* run of that render up to its await of getUserMedia, lines 45-66.
StartCamera ==
    /\ rendered /\ StartView
    /\ Len(effects) < MaxCameras
    /\ state' = [state EXCEPT !.isCameraOpen = TRUE]
    /\ effects' = Append(effects,
                         [mounted |-> TRUE, pc |-> "getUserMedia",
                          newStream |-> NoStream, srcObject |-> NoStream])
    /\ UNCHANGED <<tracks, calls, readers, rendered, serviceVars>>

\* The catch of initializeCamera, lines 91-97, in run i, and the render and
\* clean-up that follow setIsCameraOpen(false).
CameraCatch(i) ==
    IF effects[i].mounted
    THEN /\ state' = [state EXCEPT !.error = CameraError, !.isCameraOpen = FALSE]
         /\ effects' = [CleanedUp EXCEPT ![i].pc = "done"]
         /\ tracks' = CleanedUpTracks
    ELSE /\ effects' = [effects EXCEPT ![i].pc = "done"]
         /\ UNCHANGED <<state, tracks>>

\* getUserMedia's stream attached without the test of mounted.
GetUserMediaResolvesMutAttach(i) ==
    /\ effects[i].pc = "getUserMedia"
    /\ LET newStream == Len(tracks) + 1
       IN  /\ tracks' = Append(tracks, "live")
           /\ effects' = [effects EXCEPT ![i].pc = "loadedmetadata",
                                         ![i].newStream = newStream,
                                         ![i].srcObject = newStream]
    /\ UNCHANGED <<state, calls, readers, rendered, serviceVars>>

\* getUserMedia resolves in run i, lines 67-76: the stream is stopped when
\* the run has been cleaned up, and attached to the run's <video> if not.
GetUserMediaResolves(i) ==
    /\ effects[i].pc = "getUserMedia"
    /\ LET newStream == Len(tracks) + 1
       IN  IF effects[i].mounted
           THEN /\ tracks' = Append(tracks, "live")
                /\ effects' = [effects EXCEPT ![i].pc = "loadedmetadata",
                                              ![i].newStream = newStream,
                                              ![i].srcObject = newStream]
           ELSE /\ tracks' = Append(tracks, "stopped")
                /\ effects' = [effects EXCEPT ![i].pc = "done",
                                              ![i].newStream = newStream]
    /\ UNCHANGED <<state, calls, readers, rendered, serviceVars>>

GetUserMediaRejects(i) ==
    /\ effects[i].pc = "getUserMedia"
    /\ CameraCatch(i)
    /\ UNCHANGED <<calls, readers, rendered, serviceVars>>

\* loadedmetadata fires on the <video> of run i, lines 78-88: play() is
\* called, unless the run has been cleaned up.
LoadedMetadata(i) ==
    /\ effects[i].pc = "loadedmetadata"
    /\ IF effects[i].mounted
       THEN /\ effects' = [effects EXCEPT ![i].pc = "play"]
            /\ UNCHANGED tracks
       ELSE /\ effects' = [effects EXCEPT ![i].pc = "done"]
            /\ tracks' = StopTracks(tracks, effects[i].newStream)
    /\ UNCHANGED <<state, calls, readers, rendered, serviceVars>>

\* play() resolves in run i, lines 85-89.
PlayResolves(i) ==
    /\ effects[i].pc = "play"
    /\ effects' = [effects EXCEPT ![i].pc = "done"]
    /\ state' = IF effects[i].mounted
                THEN [state EXCEPT !.stream = effects[i].newStream]
                ELSE state
    /\ UNCHANGED <<tracks, calls, readers, rendered, serviceVars>>

PlayRejects(i) ==
    /\ effects[i].pc = "play"
    /\ CameraCatch(i)
    /\ UNCHANGED <<calls, readers, rendered, serviceVars>>

\* resetAll(true), lines 117-135: the handler of Cancel, of Reset and of
\* Try Another Photo.  videoRef.current is the <video> of the last run
\* while the camera is open.  isProcessing is not touched.
ResetAll ==
    /\ rendered
    /\ CameraView \/ PreviewView \/ ResultView
    /\ state' = [state EXCEPT !.stream = NoStream, !.image = Null,
                              !.analysis = NoAnalysis, !.error = Null,
                              !.isCameraOpen = FALSE]
    /\ IF state.isCameraOpen
       THEN effects' = CleanedUp /\ tracks' = CleanedUpTracks
       ELSE UNCHANGED <<effects, tracks>>
    /\ UNCHANGED <<calls, readers, rendered, serviceVars>>

\* captureImage, lines 137-179, behind the button that is disabled while
\* stream is null; context tells whether getContext('2d') gave a context.
CaptureImage(context) ==
    /\ rendered /\ CameraView
    /\ state.stream # NoStream
    /\ IF context
       THEN /\ state' = [state EXCEPT !.image = Captured,
                                      !.isCameraOpen = FALSE,
                                      !.stream = NoStream]
            /\ effects' = CleanedUp
            /\ tracks' = CleanedUpTracks
       ELSE /\ state' = [state EXCEPT !.error = CaptureError]
            /\ UNCHANGED <<effects, tracks>>
    /\ UNCHANGED <<calls, readers, rendered, serviceVars>>

Capture == \E context \in BOOLEAN : CaptureImage(context)

\* handleFileUpload, lines 181-191, with a file chosen: a FileReader is
\* started; and its onload, which may come at any later time.
HandleFileUpload ==
    /\ rendered /\ StartView
    /\ Len(readers) < MaxUploads
    /\ \E file \in Files :
           readers' = Append(readers, [file |-> file, loaded |-> FALSE])
    /\ UNCHANGED <<state, effects, tracks, calls, rendered, serviceVars>>

ReaderOnload ==
    \E k \in 1..Len(readers) :
        /\ ~readers[k].loaded
        /\ readers' = [readers EXCEPT ![k].loaded = TRUE]
        /\ state' = [state EXCEPT !.image = readers[k].file]
        /\ UNCHANGED <<effects, tracks, calls, rendered, serviceVars>>

\* The component leaves the tree: the clean-up of the camera effect runs,
\* no handler runs any more.  What is under way goes on, and a setState it
\* calls is recorded in state all the same (React shows nothing of it).
Unmount ==
    /\ rendered
    /\ rendered' = FALSE
    /\ effects' = CleanedUp
    /\ tracks' = CleanedUpTracks
    /\ UNCHANGED <<state, calls, readers, serviceVars>>

\* What analyzeFace returns for each of the images when it returns: the
\* detector and the sampler are functions of the image.
ResultOf(img) ==
    LET shape == CASE img = "fileA" -> "Oval"
                   [] img = "fileB" -> "Round"
                   [] OTHER -> "Square"
        tone == CASE img = "fileA" -> "Fair"
                  [] img = "fileB" -> "Warm Light"
                  [] OTHER -> "Cool Medium"
    IN  [faceShape |-> shape, skinTone |-> tone,
         recommendations |-> generateRecommendations(shape, tone)]

\* analyzeImage, lines 193-227, behind the Analyze button, which is in the
\* preview and disabled while isProcessing: up to its first await.  The
\* call keeps the image of the render it was started from (image!).
AnalyzeImage ==
    /\ rendered /\ PreviewView
    /\ ~state.isProcessing
    /\ Len(calls) < MaxAnalyses
    /\ state' = [state EXCEPT !.isProcessing = TRUE, !.error = Null]
    /\ calls' = Append(calls, [pc |-> "initialize", image |-> state.image])
    /\ UNCHANGED <<effects, tracks, readers, rendered, serviceVars>>

\* The catch without the finally: isProcessing is left as it is.
AnalyzeCatchMutNoFinally(c, message) ==
    /\ state' = [state EXCEPT !.error = message]
    /\ calls' = [calls EXCEPT ![c].pc = "thrown"]

\* The catch and the finally of call c, lines 219-226.
AnalyzeCatch(c, message) ==
    /\ state' = [state EXCEPT !.error = message, !.isProcessing = FALSE]
    /\ calls' = [calls EXCEPT ![c].pc = "thrown"]

\* analysisService.initialize() settles, lines 199-206.
InitializeSettles(c, ok) ==
    /\ calls[c].pc = "initialize"
    /\ IF ok
       THEN calls' = [calls EXCEPT ![c].pc = "imageLoad"] /\ UNCHANGED state
       ELSE AnalyzeCatch(c, BackendError)
    /\ UNCHANGED <<effects, tracks, readers, rendered, serviceVars>>

\* img.onload or img.onerror, lines 203-209; onerror rejects with an event,
\* which has no message.
ImageLoadSettles(c, ok) ==
    /\ calls[c].pc = "imageLoad"
    /\ IF ok
       THEN calls' = [calls EXCEPT ![c].pc = "analyzeFace"] /\ UNCHANGED state
       ELSE AnalyzeCatch(c, AnalyzeFallback)
    /\ UNCHANGED <<effects, tracks, readers, rendered, serviceVars>>

\* analyzeFace settles, lines 209-226: with a result, or with one of the
\* errors it throws on an initialised service.
AnalyzeFaceSettles(c, thrown) ==
    /\ calls[c].pc = "analyzeFace"
    /\ IF thrown = "none"
       THEN /\ state' = [state EXCEPT !.analysis = ResultOf(calls[c].image),
                                      !.isProcessing = FALSE]
            /\ calls' = [calls EXCEPT ![c].pc = "returned"]
       ELSE AnalyzeCatch(c, thrown)
    /\ UNCHANGED <<effects, tracks, readers, rendered, serviceVars>>

AnalyzeImageStep ==
    \E c \in 1..Len(calls) :
        \/ \E ok \in BOOLEAN : InitializeSettles(c, ok)
        \/ \E ok \in BOOLEAN : ImageLoadSettles(c, ok)
        \/ \E thrown \in {"none", NoFaceDetected, NoCanvasContext} :
               AnalyzeFaceSettles(c, thrown)

NextUi ==
    \/ StartCamera
    \/ \E i \in 1..Len(effects) : GetUserMediaResolves(i)
    \/ \E i \in 1..Len(effects) : GetUserMediaRejects(i)
    \/ \E i \in 1..Len(effects) : LoadedMetadata(i)
    \/ \E i \in 1..Len(effects) : PlayResolves(i)
    \/ \E i \in 1..Len(effects) : PlayRejects(i)
    \/ ResetAll
    \/ Capture
    \/ HandleFileUpload
    \/ ReaderOnload
    \/ AnalyzeImage
    \/ \E c \in 1..Len(calls), ok \in BOOLEAN : InitializeSettles(c, ok)
    \/ \E c \in 1..Len(calls), ok \in BOOLEAN : ImageLoadSettles(c, ok)
    \/ \E c \in 1..Len(calls) :
           \E thrown \in {"none", NoFaceDetected, NoCanvasContext} :
               AnalyzeFaceSettles(c, thrown)
    \/ Unmount

SpecUi == InitUi /\ [][NextUi]_vars

\* The awaited steps of analyzeImage settle.
SpecUiFair == SpecUi /\ WF_vars(AnalyzeImageStep)

\* The calls of analyzeImage that have begun and not ended.
InFlight == {c \in 1..Len(calls) : calls[c].pc \notin {"returned", "thrown"}}

\* C23: whenever analysis is not null, image is not null and analysis is
\* the result of analysing that image (so that no result of a call begun
\* before a reset is stored after it).
C23_AnalysisOfShownImage ==
    (state.analysis # NoAnalysis) =>
        /\ state.image # Null
        /\ state.analysis = ResultOf(state.image)

\* C27: exactly one of the four views is rendered, and the camera is not
\* open while an image is present.
C27_ExactlyOneView ==
    rendered =>
        /\ Cardinality({view \in {"start", "camera", "preview", "result"} :
               \/ view = "start" /\ StartView
               \/ view = "camera" /\ CameraView
               \/ view = "preview" /\ PreviewView
               \/ view = "result" /\ ResultView}) = 1
        /\ ~(state.isCameraOpen /\ state.image # Null)

\* The runs of the camera effect with an await still to settle.
Pending == {i \in 1..Len(effects) : effects[i].pc # "done"}

\* C24: when the camera is closed (or the component gone) every stream that
\* getUserMedia has given is stopped, runs still pending or not; a run that
\* has been cleaned up has no stream attached to its <video>, its stream,
\* if it got one, is stopped, and it is not the stream state.
C24_StreamsStopped ==
    /\ (~state.isCameraOpen \/ ~rendered) =>
           \A s \in 1..Len(tracks) : tracks[s] = "stopped"
    /\ ~state.isCameraOpen => state.stream = NoStream
    /\ \A i \in 1..Len(effects) :
           ~effects[i].mounted =>
               /\ effects[i].srcObject = NoStream
               /\ effects[i].newStream # NoStream =>
                      /\ tracks[effects[i].newStream] = "stopped"
                      /\ rendered => state.stream # effects[i].newStream

\* The camera cancelled while getUserMedia was awaited; the stream came
\* afterwards and was stopped, with the camera closed.
C24_Witness ==
    /\ ~state.isCameraOpen
    /\ Len(effects) >= 1
    /\ ~effects[1].mounted
    /\ effects[1].pc = "done"
    /\ effects[1].newStream = 1
    /\ tracks[1] = "stopped"
    /\ state.error = Null

\* C25: while a call of analyzeImage is under way isProcessing is true, at
\* most one call is under way at a time, and every call under way comes to
\* its end with isProcessing false again, whichever of its awaits fails.
C25_ProcessingFlag ==
    /\ [](/\ Cardinality(InFlight) <= 1
          /\ InFlight # {} => state.isProcessing)
    /\ (InFlight # {}) ~> (InFlight = {} /\ ~state.isProcessing)

\* A call that has ended in its catch, with isProcessing false again.
C25_Witness ==
    /\ Len(calls) >= 1
    /\ calls[1].pc = "thrown"
    /\ InFlight = {}
    /\ ~state.isProcessing
    /\ state.error = NoFaceDetected

\* C26: the step in which a call of analyzeImage ends.  Thrown: error is
\* not null afterwards and analysis is as before, null.  Returned: analysis
\* is the faceShape, skinTone and recommendations of the result, and error
\* is null still, as the call set it at its start.
C26_ErrorOrAnalysis ==
    [][\A c \in InFlight :
          /\ (calls'[c].pc = "thrown") =>
                 /\ state'.error # Null
                 /\ state'.analysis = state.analysis
                 /\ state.analysis = NoAnalysis
          /\ (calls'[c].pc = "returned") =>
                 /\ state'.analysis = ResultOf(calls[c].image)
                 /\ state'.error = Null]_vars

==============================================================================
